---- MODULE Spec2Model ----
(***************************************************************************)
(* Model of the dmxtrace-ng / rbftrace model-extraction pipeline:          *)
(*   rbftrace-core            : Time, ClosedInterval, SparseMap, RbfCurve  *)
(*   rbftrace-model-extraction: JobExtractor, RBFExtractor,                *)
(*                              PeriodicTaskExtractor,                     *)
(*                              SpectralExtractor, InvocationCycle,        *)
(*                              ArrivalSequenceSubset, ScalarMM,           *)
(*                              CompositeModelExtractor,                   *)
(*                              IncrementalSystemModelExtractor            *)
(* Option<T> is modelled as a sequence: <<>> is None, <<x>> is Some(x).    *)
(* A Rust panic (failed assert!, arithmetic overflow trap, division by     *)
(* zero) aborts the program: the operator reports panic = TRUE and the     *)
(* specification stops feeding the aborted object.                         *)
(***************************************************************************)
EXTENDS Integers, Sequences, FiniteSets, TLC

VARIABLES
    mode,       \* which driver (specification) is running
    now,        \* instant of the last event fed (per-task streams are non-decreasing)
    steps,      \* number of operations performed so far
    panicked,   \* TRUE once an operation has aborted
    lastEvent,  \* Option<TraceEvent>: the event fed by the last step
    rbfx,       \* RBFExtractor { job_detector, rbf }
    emitted,    \* Option<Job>: the Job returned by the last JobExtractor::push_event
    latestActivation, \* Option<Time>: instant of the latest Activation fed (history)
    crv,        \* RbfCurve driven directly through add_arrival
    arrivals,   \* sequence of (instant, cost) given to crv.add_arrival so far
    pex,        \* PeriodicTaskExtractor
    cx,         \* CompositeModelExtractor
    cmodel,     \* Option<CompositeModel>: the result of the last extract_model
    sysx,       \* IncrementalSystemModelExtractor
    solo,       \* Pid -> IncrementalTaskModelExtractor fed that task's events alone
    smodel,     \* Option<SystemModel>: the result of the last extract_model
    ca,         \* RbfCurve: first operand of sum
    cb,         \* RbfCurve: second operand of sum
    sumAB,      \* Option<RbfCurve>: a clone of ca after sum(&cb)
    sumBA,      \* Option<RbfCurve>: a clone of cb after sum(&ca)
    iv,         \* three ClosedIntervals
    ires,       \* Option: their intersections, in both orders and groupings,
                \* and those of the first one with itself and with Empty
    tval,       \* <<t, resolution>>: a Time and the resolution it is brought to
    tres,       \* [truncate, round]: Option results of t.truncate(R) and t.round(R)
    trc,        \* Trace { events }
    pushResult, \* Option<Result<(), TraceError>>: what the last Trace::push returned
    icx,        \* InvocationCycle
    icArrival,  \* Option<Arrival>: what the last update_activation_cycle returned
    smap,       \* SparseMap
    prange,     \* PeriodRange handed to pick_period_heuristic
    ppick,      \* Option<Period>: what pick_period_heuristic returned
    ftx,        \* PeriodicTaskExtractor fed the fixed-execution-time trace
    fplan,      \* [offset, exec]: first activation and execution time of that trace, in ms
    subx,       \* ArrivalSequenceSubset
    subRes,     \* Option<PeriodRange>: what the last add_arrival returned
    subHist,    \* <<instant, cost>> of the arrivals handed to add_arrival, in order
    subEmptied, \* some add_arrival found the feasible-period interval empty
    jx,                \* JobExtractor
    jobOut,            \* Option<Job>: what the last push_event returned
    preemptedSum,      \* sum of (Dispatch - preceding Preemption) since the latest Activation
    jobsOfActivation,  \* Jobs emitted since the latest Activation (2 = two or more)
    exitSeen,          \* an Exit was pushed since the latest Activation
    maxJobTime,   \* largest execution_time of the Jobs the periodic extractor's job_detector emitted
    emptyBefore,  \* the periodic extractor's period range held no value before the last event
    wfx,         \* InvocationCycle fed well-formed cycles
    wfArrival,   \* Option<Arrival>: what its last update_activation_cycle returned
    wfCycle,     \* the open cycle as the events define it: first Activation, running time, suspensions
    wfExpected,  \* Option<Arrival>: the Arrival the last event ends the open cycle with
    rgap,       \* min_gap of a SpectralExtractor, in ns
    rres,       \* Option: the resolution fft() chooses for it, and whether it aborts
    ssx,        \* the SpectralExtractor whose job history is analysed
    ssPeriod,   \* the period handed to detect_suspensions
    ssRes,      \* Option: what detect_suspensions returned, with the trail of its loop
    inc,        \* the locals of _main in incremental mode (match-model.rs)
    oneshot,    \* the SystemModelExtractor of a one-shot run over the same events
    outcome,    \* Option: the final model of the incremental run and of the one-shot run
    overflow_checks \* the build traps on integer overflow (debug profile)

vars == <<mode, now, steps, panicked, lastEvent, rbfx, emitted, latestActivation,
          crv, arrivals, pex, cx, cmodel, sysx, solo, smodel,
          ca, cb, sumAB, sumBA, iv, ires, tval, tres,
          trc, pushResult,
          icx, icArrival,
          smap,
          prange, ppick,
          ftx, fplan,
          subx, subRes, subHist, subEmptied,
          jx, jobOut, preemptedSum, jobsOfActivation, exitSeen,
          maxJobTime, emptyBefore,
          wfx, wfArrival, wfCycle, wfExpected,
          rgap, rres,
          ssx, ssPeriod, ssRes,
          inc, oneshot, outcome,
          overflow_checks>>

(***************************************************************************)
(* Bounds of the exploration                                               *)
(***************************************************************************)
MaxWindow == 3      \* window sizes 1..MaxWindow
MaxTime == 6        \* largest instant of the RBF drivers
MaxStep == 3        \* largest gap between two consecutive instants (RBF drivers)
MaxCost == 2        \* largest cost handed to add_arrival directly
MaxEvents == 6      \* events fed to the RBF extractor
MaxArrivals == 4    \* arrivals fed to add_arrival directly
MaxPTime == 42      \* largest instant fed to the periodic extractor
MaxPEvents == 5     \* events fed to the periodic extractor
MaxCTime == 1000000 \* largest instant fed to the composite extractor
MaxCEvents == 5     \* events fed to the composite extractor
MaxSTime == 4       \* largest instant fed to the system extractor
MaxSEvents == 5     \* events fed to the system extractor
MaxSumDelta == 3    \* largest delta of a breakpoint of a summed curve
MaxSumCost == 2     \* largest cost of a breakpoint of a summed curve
MaxBound == 3       \* largest bound of a ClosedInterval
MaxT == 15          \* largest Time truncated or rounded
MaxResolution == 5  \* largest resolution, from 1
MaxTraceTime == 2   \* largest instant of an event of a Trace
MaxTraceLen == 3    \* events held by a Trace
MaxCycleTime == 3   \* largest instant fed to the invocation cycle
MaxCycleEvents == 4 \* events fed to the invocation cycle
MaxTimeout == 1     \* largest suspension timeout of the invocation cycle
MaxMapCapacity == 3 \* largest capacity of the sparse map
MaxMapDelta == 4    \* largest delta stored in or asked of the sparse map
MaxMapCost == 2     \* largest cost stored in the sparse map
MaxMapOps == 3      \* add/insert operations applied to the sparse map
MaxPickQuarters == 44 \* the period range bounds go up to this many quarters of the snap unit
MaxFixedOffset == 6 \* largest first activation of the fixed-execution-time trace, in ms
MaxFixedExec == 3   \* largest execution time of the fixed-execution-time trace, in ms
MaxFixedJobs == 3   \* jobs of the fixed-execution-time trace
MaxJitterBound == 4     \* largest jitter bound of the arrival subset
MaxSubsetArrivals == 4  \* arrivals handed to the arrival subset
MaxJobTime == 6         \* largest instant fed to the job extractor
MaxJobEvents == 7       \* events fed to the job extractor
MaxWfTime == 8          \* largest instant of the well-formed cycles
MaxWfEvents == 7        \* events of the well-formed cycles
MaxGapMagnitude == 7    \* largest power of ten of the minimum gaps explored
MaxSuspensionEvents == 6    \* events fed to the spectral extractor before detect_suspensions
MaxIncEvents == 4       \* events of the trace read by match-model

None == <<>>
Some(x) == <<x>>
IsSome(o) == o # <<>>
Unwrap(o) == o[1]

\* the element of a singleton set; The({e(v) : v \in {call}}) evaluates the
\* call once and names its result v, as a Rust `let v = call;` does
The(S) == CHOOSE x \in S : TRUE

Max(a, b) == IF a >= b THEN a ELSE b
Min(a, b) == IF a <= b THEN a ELSE b

EventTypes == {"Activation", "Deactivation", "Preemption", "Dispatch", "Exit"}

TraceEvent(etype, pid, instant) == [etype |-> etype, pid |-> pid, instant |-> instant]

(***************************************************************************)
(* rbf/mod.rs, rbf/sparse_map.rs : Point and SparseMap                     *)
(***************************************************************************)
Point(delta, cost) == [delta |-> delta, cost |-> cost]

\* SparseMap::new : capacity empty buckets (bucket i of the code is buckets[i+1])
SparseMapNew(capacity) ==
    [buckets |-> [i \in 1..capacity |-> <<>>],
     capacity |-> capacity,
     bucket_size |-> 1,
     count |-> 0]

\* SparseMap::double_buckets : for i in 0..capacity/2, bucket i receives the
\* old buckets 2i and 2i+1 (both drained).  Buckets capacity/2 .. 2*(capacity/2)-1
\* are left drained; with an odd capacity the last bucket is never visited.
double_buckets(m) ==
    LET half == m.capacity \div 2
        old == m.buckets
    IN [m EXCEPT !.bucket_size = 2 * m.bucket_size,
                 !.buckets = [i \in 1..m.capacity |->
                                 IF i <= half THEN old[2 * i - 1] \o old[2 * i]
                                 ELSE IF i <= 2 * half THEN <<>>
                                 ELSE old[i]]]

\* the `while p.delta >= bucket_size * capacity { double_buckets() }` loop
RECURSIVE GrowFor(_, _)
GrowFor(m, delta) ==
    IF delta >= m.bucket_size * m.capacity
    THEN GrowFor(double_buckets(m), delta)
    ELSE m

\* SparseMap::bucket_index_of (0-based, as in the code)
bucket_index_of(m, delta) == delta \div m.bucket_size

\* the backward cursor scan of update_map: position (1-based) of the first
\* element met from the end whose delta is <= d; 0 if there is none
RECURSIVE ScanBack(_, _, _)
ScanBack(b, d, k) ==
    IF k = 0 THEN 0
    ELSE IF b[k].delta = d THEN k
    ELSE IF b[k].delta < d THEN k
    ELSE ScanBack(b, d, k - 1)

\* the inner removal loop: drop the leading elements whose cost is <= c
RECURSIVE DropLeq(_, _)
DropLeq(s, c) ==
    IF s = <<>> THEN <<>>
    ELSE IF Head(s).cost <= c THEN DropLeq(Tail(s), c)
    ELSE s

\* continue the removal in the following buckets until an element with a
\* larger cost interrupts the sequence or the buckets are exhausted
RECURSIVE PruneFollowing(_, _, _, _)
PruneFollowing(buckets, cbi, c, capacity) ==
    IF cbi > capacity THEN buckets
    ELSE LET r == DropLeq(buckets[cbi], c)
         IN IF r # <<>>
            THEN [buckets EXCEPT ![cbi] = r]
            ELSE PruneFollowing([buckets EXCEPT ![cbi] = <<>>], cbi + 1, c, capacity)

\* update_map after the doubling loop, with the cursor scan done: k is the
\* position found by the scan in bucket bi (1-based)
UpdateAt(m, p, keep_monotonicity, bi, k) ==
    LET b == m.buckets[bi]
        same == k > 0 /\ b[k].delta = p.delta
        nb == IF same THEN [b EXCEPT ![k] = [@ EXCEPT !.cost = p.cost]]
              ELSE SubSeq(b, 1, k) \o <<p>> \o SubSeq(b, k + 1, Len(b))
        pos == IF same THEN k ELSE k + 1
        cnt == IF same THEN m.count ELSE m.count + 1
    IN IF ~keep_monotonicity
       THEN [m EXCEPT !.buckets = [m.buckets EXCEPT ![bi] = nb], !.count = cnt]
       ELSE The({[m EXCEPT !.count = cnt,
                           !.buckets = IF rest # <<>>
                                       THEN [m.buckets EXCEPT ![bi] = SubSeq(nb, 1, pos) \o rest]
                                       ELSE PruneFollowing(
                                                [m.buckets EXCEPT ![bi] = SubSeq(nb, 1, pos)],
                                                bi + 1, p.cost, m.capacity)]
                 : rest \in {DropLeq(SubSeq(nb, pos + 1, Len(nb)), p.cost)}})

\* SparseMap::update_map
update_map(m0, p, keep_monotonicity) ==
    The({UpdateAt(m, p, keep_monotonicity, bucket_index_of(m, p.delta) + 1,
                  ScanBack(m.buckets[bucket_index_of(m, p.delta) + 1], p.delta,
                           Len(m.buckets[bucket_index_of(m, p.delta) + 1]))) :
         m \in {GrowFor(m0, p.delta)}})

\* SparseMap::add / SparseMap::insert
SparseAdd(m, p) == update_map(m, p, TRUE)
SparseInsert(m, p) == update_map(m, p, FALSE)

\* `for el in b.iter().rev() { if el.delta <= delta { return el.cost } }`
RECURSIVE FindBack(_, _, _)
FindBack(b, delta, k) ==
    IF k = 0 THEN None
    ELSE IF b[k].delta <= delta THEN Some(b[k].cost)
    ELSE FindBack(b, delta, k - 1)

RECURSIVE GetFrom(_, _, _)
GetFrom(m, delta, bi) ==
    LET f == FindBack(m.buckets[bi + 1], delta, Len(m.buckets[bi + 1]))
    IN IF IsSome(f) THEN Unwrap(f)
       ELSE IF bi = 0 THEN 0
       ELSE GetFrom(m, delta, bi - 1)

\* SparseMap::get
SparseGet(m, delta) ==
    IF m.bucket_size * m.capacity <= delta THEN 0
    ELSE GetFrom(m, delta, bucket_index_of(m, delta))

\* SparseMapIterator : the buckets in index order, each from front to back
RECURSIVE IterFrom(_, _)
IterFrom(m, bi) ==
    IF bi > m.capacity THEN <<>>
    ELSE m.buckets[bi] \o IterFrom(m, bi + 1)

SparseIter(m) == IterFrom(m, 1)

\* the set of stored breakpoints
StoredPoints(m) == {SparseIter(m)[i] : i \in 1..Len(SparseIter(m))}

(***************************************************************************)
(* rbf/mod.rs : RbfCurve                                                   *)
(***************************************************************************)
\* RbfCurve::new
RbfCurveNew(pid, window_size) ==
    [last_arrivals_window |-> <<>>,
     window_size |-> window_size,
     curve |-> SparseAdd(SparseMapNew(window_size), Point(0, 0)),
     wcet |-> 0,
     pid |-> pid,
     prio |-> 0]

\* RbfCurve::get
RbfGet(r, delta) == SparseGet(r.curve, delta)

\* the `for arr in last_arrivals_window.iter().rev()` loop of add_arrival:
\* k is the (1-based) window position visited, acc the cost summed so far
RECURSIVE WalkWindow(_, _, _, _, _)
WalkWindow(curve, win, k, t, acc) ==
    IF k = 0 THEN curve
    ELSE LET observed_gap == t - win[k][1] + 1
             tot == acc + win[k][2]
             c2 == IF tot > SparseGet(curve, observed_gap)
                   THEN SparseAdd(curve, Point(observed_gap, tot))
                   ELSE curve
         IN WalkWindow(c2, win, k - 1, t, tot)

\* RbfCurve::add_arrival ; panic = the monotonicity assert! failed
add_arrival(r, instant, cost) ==
    LET win0 == r.last_arrivals_window
        back == IF win0 = <<>> THEN instant ELSE win0[Len(win0)][1]
        win1 == Append(win0, <<instant, cost>>)
        c2 == WalkWindow(r.curve, win1, Len(win1), instant, 0)
        win2 == IF Len(win1) > r.window_size THEN Tail(win1) ELSE win1
    IN IF instant < back
       THEN [rbf |-> r, panic |-> TRUE]
       ELSE [rbf |-> [r EXCEPT !.last_arrivals_window = win2,
                               !.curve = c2,
                               !.wcet = Max(r.wcet, cost)],
             panic |-> FALSE]

\* the merge of RbfCurve::sum from positions i and j of the iterations pts1
\* (the clone of self.curve) and pts2 (other.curve);
\* acc = [curve, last_cost_1, last_cost_2].  Once one iteration is exhausted
\* the pending point and the rest of the other one are inserted with the
\* last cost of the exhausted one (the three trailing blocks of the code).
RECURSIVE SumMerge(_, _, _, _, _)
SumMerge(acc, pts1, i, pts2, j) ==
    IF i <= Len(pts1) /\ j <= Len(pts2)
    THEN IF pts1[i].delta = pts2[j].delta
         THEN SumMerge([curve |-> SparseInsert(acc.curve,
                                      Point(pts1[i].delta, pts1[i].cost + pts2[j].cost)),
                        last_cost_1 |-> pts1[i].cost + pts2[j].cost,
                        last_cost_2 |-> pts1[i].cost + pts2[j].cost],
                       pts1, i + 1, pts2, j + 1)
         ELSE IF pts1[i].delta < pts2[j].delta
         THEN SumMerge([acc EXCEPT
                           !.curve = SparseInsert(@, Point(pts1[i].delta,
                                                           pts1[i].cost + acc.last_cost_2)),
                           !.last_cost_1 = pts1[i].cost],
                       pts1, i + 1, pts2, j)
         ELSE SumMerge([acc EXCEPT
                           !.curve = SparseInsert(@, Point(pts2[j].delta,
                                                           pts2[j].cost + acc.last_cost_1)),
                           !.last_cost_2 = pts2[j].cost],
                       pts1, i, pts2, j + 1)
    ELSE IF i <= Len(pts1)
    THEN SumMerge([acc EXCEPT
                      !.curve = SparseInsert(@, Point(pts1[i].delta,
                                                      pts1[i].cost + acc.last_cost_2))],
                  pts1, i + 1, pts2, j)
    ELSE IF j <= Len(pts2)
    THEN SumMerge([acc EXCEPT
                      !.curve = SparseInsert(@, Point(pts2[j].delta,
                                                      pts2[j].cost + acc.last_cost_1))],
                  pts1, i, pts2, j + 1)
    ELSE acc

\* RbfCurve::sum : self after self.sum(&other)
RbfSum(self, other) ==
    [self EXCEPT !.curve = SumMerge([curve |-> self.curve, last_cost_1 |-> 0,
                                     last_cost_2 |-> 0],
                                    SparseIter(self.curve), 1,
                                    SparseIter(other.curve), 1).curve]

(***************************************************************************)
(* job.rs : JobExtractor                                                   *)
(***************************************************************************)
Job(execution_time, arrived_at, completed_at, preemption_time) ==
    [execution_time |-> execution_time, arrived_at |-> arrived_at,
     completed_at |-> completed_at, preemption_time |-> preemption_time]

\* JobExtractor::new
JobExtractorNew == [last_event |-> None, last_activation |-> None, preemption_time |-> 0]

\* variant of the Activation branch that keeps the preemption time of the
\* previous job
JobOnActivation_NoReset(je, event) ==
    IF event.etype = "Activation"
    THEN [je EXCEPT !.last_activation = Some(event)]
    ELSE je

\* the Activation branch: preemption_time is reset, the activation remembered
JobOnActivation(je, event) ==
    IF event.etype = "Activation"
    THEN [je EXCEPT !.preemption_time = 0, !.last_activation = Some(event)]
    ELSE je

\* the Dispatch branch: preemption_time = now - instant of the Preemption
\* that was the last event
JobOnDispatch(je, event) ==
    IF event.etype = "Dispatch" /\ IsSome(je.last_event)
       /\ Unwrap(je.last_event).etype = "Preemption"
    THEN [je EXCEPT !.preemption_time = event.instant - Unwrap(je.last_event).instant]
    ELSE je

\* JobExtractor::push_event ; panic = an assert! failed or a Time
\* subtraction went below zero
JobPushEvent(je0, event) ==
    LET je1 == JobOnActivation(je0, event)
        emits == event.etype = "Deactivation" /\ IsSome(je1.last_activation)
        la == Unwrap(je1.last_activation)
        disp == event.etype = "Dispatch" /\ IsSome(je1.last_event)
                /\ Unwrap(je1.last_event).etype = "Preemption"
        je2 == JobOnDispatch(je1, event)
    IN IF emits
       THEN [je |-> [je1 EXCEPT !.last_event = Some(event)],
             job |-> Some(Job(event.instant - la.instant - je1.preemption_time,
                              la.instant, event.instant, je1.preemption_time)),
             panic |-> \/ la.instant > event.instant
                       \/ event.instant - la.instant < je1.preemption_time]
       ELSE [je |-> [je2 EXCEPT !.last_event = Some(event)],
             job |-> None,
             panic |-> disp /\ Unwrap(je1.last_event).instant > event.instant]

(***************************************************************************)
(* rbf.rs : RBFExtractor                                                   *)
(***************************************************************************)
\* RBFExtractor::new
RBFExtractorNew(window_size) ==
    [job_detector |-> JobExtractorNew, rbf |-> RbfCurveNew(0, window_size)]

\* RBFExtractor::push_event
RBFPushEvent(x, event) ==
    The({IF jr.panic
         THEN [x |-> x, job |-> jr.job, panic |-> TRUE]
         ELSE IF IsSome(jr.job)
         THEN The({[x |-> [job_detector |-> jr.je, rbf |-> ar.rbf], job |-> jr.job,
                    panic |-> ar.panic]
                   : ar \in {add_arrival(x.rbf, Unwrap(jr.job).arrived_at,
                                         Unwrap(jr.job).execution_time)}})
         ELSE [x |-> [x EXCEPT !.job_detector = jr.je], job |-> None, panic |-> FALSE]
         : jr \in {JobPushEvent(x.job_detector, event)}})

(***************************************************************************)
(* time.rs : Time::truncate, Time::round                                   *)
(***************************************************************************)
\* Time::truncate (resolution >= 1)
Truncate(t, resolution) == (t \div resolution) * resolution

\* Time::round (resolution >= 1): one more multiple when the remainder
\* reaches resolution / 2 (integer division)
Round(t, resolution) ==
    LET halfway == resolution \div 2
        new_ns == t \div resolution
    IN IF (t % resolution) >= halfway
       THEN (new_ns + 1) * resolution
       ELSE new_ns * resolution

(***************************************************************************)
(* math.rs : ClosedInterval                                                *)
(***************************************************************************)
Empty == [tag |-> "Empty", lower |-> 0, upper |-> 0]
NotAnInterval == [tag |-> "NotAnInterval", lower |-> 0, upper |-> 0]
NotEmpty(a, b) == [tag |-> "NotEmpty", lower |-> a, upper |-> b]

\* ClosedInterval::closed
closed(lower, upper) == NotEmpty(lower, upper)

is_empty(i) == i.tag = "Empty"
is_interval(i) == i.tag # "NotAnInterval"
get_lower(i) == IF i.tag = "NotEmpty" THEN Some(i.lower) ELSE None
get_upper(i) == IF i.tag = "NotEmpty" THEN Some(i.upper) ELSE None

\* variant of partial_max that keeps the first operand
partial_max_Left(a, b) == a

\* partial_max / partial_min : on Ordering::Greater (Less) the first
\* operand, otherwise the second
partial_max(a, b) == IF a > b THEN a ELSE b
partial_min(a, b) == IF a < b THEN a ELSE b

\* Option::zip
Zip(o1, o2) == IF IsSome(o1) /\ IsSome(o2) THEN Some(<<Unwrap(o1), Unwrap(o2)>>) ELSE None

\* the interval contains no value
HoldsNoValue(i) == i.tag # "NotEmpty" \/ i.lower > i.upper

\* ClosedInterval::intersection
intersection(self, other) ==
    LET lower == LET z == Zip(get_lower(self), get_lower(other))
                 IN IF IsSome(z) THEN Some(partial_max(Unwrap(z)[1], Unwrap(z)[2])) ELSE None
        upper == LET z == Zip(get_upper(self), get_upper(other))
                 IN IF IsSome(z) THEN Some(partial_min(Unwrap(z)[1], Unwrap(z)[2])) ELSE None
        lu == Zip(lower, upper)
    IN IF ~(is_interval(self) \/ is_interval(other)) THEN NotAnInterval
       ELSE IF IsSome(lu)
            THEN IF Unwrap(lu)[1] <= Unwrap(lu)[2]
                 THEN closed(Unwrap(lu)[1], Unwrap(lu)[2])
                 ELSE Empty
            ELSE Empty

(***************************************************************************)
(* periodic.rs : PeriodicTaskExtractor                                     *)
(***************************************************************************)
\* PeriodicTask::default
PeriodicTaskDefault == [period |-> 0, jitter |-> 0, offset |-> 0, wcet |-> 0]

\* usize::next_power_of_two
RECURSIVE PowerOfTwoFrom(_, _)
PowerOfTwoFrom(n, p) == IF p >= n THEN p ELSE PowerOfTwoFrom(n, 2 * p)
next_power_of_two(n) == PowerOfTwoFrom(n, 1)

\* PeriodicTaskExtractor::new ; capacity is the capacity of the
\* AllocRingBuffer activation_history (oldest activation first)
PeriodicNew(j_max, resolution) ==
    [resolution |-> resolution,
     j_max |-> j_max,
     capacity |-> next_power_of_two(2 * (j_max \div resolution) + 1),
     activation_history |-> <<>>,
     still_periodic |-> FALSE,
     current_model |-> None,
     average_gap |-> 0,
     wcet |-> 0,
     curr_period_range |-> None,
     job_detector |-> JobExtractorNew,
     last_job |-> None]

\* AllocRingBuffer::push : a full buffer drops its oldest element
RingPush(h, capacity, e) ==
    IF Len(h) = capacity THEN Append(Tail(h), e) ELSE Append(h, e)

\* RingBufferExt::get(i), i >= 0 : the i-th oldest element, modulo the length
RingGet(h, i) == h[(i % Len(h)) + 1]

\* PeriodicTaskExtractor::push_activation_and_update_average_gap ;
\* panic = division by k = 0 or a Time subtraction below zero
push_activation_and_update_average_gap(x, event) ==
    LET h == x.activation_history
        new_diff == event.instant - h[Len(h)].instant
        k0 == Len(h) - 1
        full == Len(h) = x.capacity
        oldest_diff == RingGet(h, 1).instant - RingGet(h, 0).instant
        kf == IF k0 = 0 THEN 1 ELSE k0
        added == x.average_gap + (new_diff \div kf)
        avg_full == added - (oldest_diff \div kf)
        k == k0 + 1
        avg_cum == x.average_gap + (new_diff \div k) - (x.average_gap \div k)
        pan == \/ new_diff < 0
               \/ full /\ (k0 = 0 \/ oldest_diff < 0 \/ avg_full < 0)
    IN [x |-> [x EXCEPT !.activation_history = RingPush(h, x.capacity, event),
                        !.average_gap = IF full THEN avg_full ELSE avg_cum],
        panic |-> pan]

\* variant of update_period_range that starts afresh from the observed range
\* when the range kept so far is empty
update_period_range_Restart(x) ==
    LET event_count == Len(x.activation_history) - 1
        err == x.j_max \div event_count
        upper == x.average_gap + err
        lower == IF err < x.average_gap THEN x.average_gap - err ELSE 1
        obs_period_range == closed(lower, upper)
        new_period_range == IF IsSome(x.curr_period_range)
                               /\ ~is_empty(Unwrap(x.curr_period_range))
                            THEN intersection(Unwrap(x.curr_period_range), obs_period_range)
                            ELSE obs_period_range
    IN IF event_count > 0
       THEN [x EXCEPT !.curr_period_range = Some(new_period_range)]
       ELSE x

\* PeriodicTaskExtractor::update_period_range
update_period_range(x) ==
    LET event_count == Len(x.activation_history) - 1
        err == x.j_max \div event_count
        upper == x.average_gap + err
        lower == IF err < x.average_gap THEN x.average_gap - err ELSE 1
        obs_period_range == closed(lower, upper)
        new_period_range == IF IsSome(x.curr_period_range)
                            THEN intersection(Unwrap(x.curr_period_range), obs_period_range)
                            ELSE obs_period_range
    IN IF event_count > 0
       THEN [x EXCEPT !.curr_period_range = Some(new_period_range)]
       ELSE x

\* Time::from_ms(1.0), in ns
Ms == 1000000

\* variant of update_still_periodic that always installs a default model
update_still_periodic_AlwaysModel(x) ==
    LET sp == IsSome(x.curr_period_range) /\ ~is_empty(Unwrap(x.curr_period_range))
    IN [x EXCEPT !.still_periodic = sp, !.current_model = Some(PeriodicTaskDefault)]

\* PeriodicTaskExtractor::update_still_periodic
update_still_periodic(x) ==
    LET sp == IsSome(x.curr_period_range) /\ ~is_empty(Unwrap(x.curr_period_range))
    IN [x EXCEPT !.still_periodic = sp,
                 !.current_model = IF sp THEN Some(PeriodicTaskDefault) ELSE None]

\* (resolution as f64).log10() as u32, for resolution >= 1
RECURSIVE FloorLog10(_)
FloorLog10(n) == IF n < 10 THEN 0 ELSE 1 + FloorLog10(n \div 10)

RECURSIVE Pow10(_)
Pow10(m) == IF m = 0 THEN 1 ELSE 10 * Pow10(m - 1)

\* `let mut magnitude = 10;` in find_period
StartMagnitude == 10

\* average_gap.round(Time::from(10_u64.pow(magnitude))).  The granularity
\* 10^10 of the first iteration lies above every instant that is explored
\* (instants stay far below its half, 5 * 10^9), so that rounding yields 0.
RoundToMagnitude(t, magnitude) ==
    IF magnitude >= StartMagnitude THEN 0 ELSE Round(t, Pow10(magnitude))

\* the `while !period_found && magnitude >= min_magnitude` loop of
\* find_period.  `magnitude -= 1` runs at the end of every iteration, also
\* of the one that found the period: at magnitude 0 the u32 goes below zero.
\*   wrapped : the period was found at magnitude 0 (the decrement traps in a
\*             build with overflow checks and wraps otherwise, where the
\*             loop then ends because the period was found)
\*   abort   : no period at magnitude 0 (the decrement traps, or wraps and
\*             the next iteration divides by the granularity 10^(2^32-1)
\*             mod 2^64 = 0)
RECURSIVE PeriodSearch(_, _, _, _, _)
PeriodSearch(avg, left, right, magnitude, min_magnitude) ==
    LET period == RoundToMagnitude(avg, magnitude)
    IN IF left <= period /\ period <= right
       THEN [found |-> TRUE, period |-> period, wrapped |-> magnitude = 0, abort |-> FALSE]
       ELSE IF magnitude = 0
       THEN [found |-> FALSE, period |-> period, wrapped |-> TRUE, abort |-> TRUE]
       ELSE IF magnitude - 1 >= min_magnitude
       THEN PeriodSearch(avg, left, right, magnitude - 1, min_magnitude)
       ELSE [found |-> FALSE, period |-> period, wrapped |-> FALSE, abort |-> FALSE]

\* variant of the search that accepts a candidate without comparing it to
\* the upper end of the interval
RECURSIVE PeriodSearch_NoUpper(_, _, _, _, _)
PeriodSearch_NoUpper(avg, left, right, magnitude, min_magnitude) ==
    LET period == RoundToMagnitude(avg, magnitude)
    IN IF left <= period
       THEN [found |-> TRUE, period |-> period, wrapped |-> magnitude = 0, abort |-> FALSE]
       ELSE IF magnitude = 0
       THEN [found |-> FALSE, period |-> period, wrapped |-> TRUE, abort |-> TRUE]
       ELSE IF magnitude - 1 >= min_magnitude
       THEN PeriodSearch_NoUpper(avg, left, right, magnitude - 1, min_magnitude)
       ELSE [found |-> FALSE, period |-> period, wrapped |-> FALSE, abort |-> FALSE]

\* variant of the search as find_period runs it
FindPeriodSearch_NoUpper(avg, left, right, min_magnitude) ==
    PeriodSearch_NoUpper(avg, left, right, StartMagnitude, min_magnitude)

\* the search as find_period runs it
FindPeriodSearch(avg, left, right, min_magnitude) ==
    PeriodSearch(avg, left, right, StartMagnitude, min_magnitude)

\* PeriodicTaskExtractor::find_period ; checks = the build traps on integer
\* overflow; panic = the search aborted, the decrement trapped, or the
\* assert!(model.period >= 1) failed
find_period(x, checks) ==
    LET model == Unwrap(x.current_model)
        range == Unwrap(x.curr_period_range)
    IN IF ~IsSome(x.current_model) THEN [x |-> x, panic |-> FALSE]
       ELSE The({LET period == IF s.found THEN s.period
                               ELSE Round(x.average_gap, x.resolution)
                 IN [x |-> [x EXCEPT !.current_model = Some([model EXCEPT !.period = period])],
                     panic |-> s.abort \/ (s.wrapped /\ checks) \/ period < 1]
                 : s \in {FindPeriodSearch(x.average_gap, range.lower, range.upper,
                                           FloorLog10(x.resolution))}})

\* minimum / maximum of `instant % period` over the activation history
RECURSIVE MinJo(_, _, _)
MinJo(h, period, k) ==
    IF k = 0 THEN h[Len(h)].instant % period
    ELSE Min(h[k].instant % period, MinJo(h, period, k - 1))

RECURSIVE MaxJo(_, _, _)
MaxJo(h, period, k) ==
    IF k = 0 THEN h[Len(h)].instant % period
    ELSE Max(h[k].instant % period, MaxJo(h, period, k - 1))

\* PeriodicTaskExtractor::extract_offset_and_jitter (period >= 1 here)
extract_offset_and_jitter(x) ==
    LET model == Unwrap(x.current_model)
        h == x.activation_history
        min_jo == MinJo(h, model.period, Len(h))
        max_jo == MaxJo(h, model.period, Len(h))
        offset == Truncate(min_jo, x.resolution)
    IN IF ~IsSome(x.current_model) THEN x
       ELSE [x EXCEPT !.current_model =
                Some([model EXCEPT !.offset = offset, !.jitter = max_jo - offset])]

\* PeriodicTaskExtractor::push_activation
push_activation(x, event, checks) ==
    IF x.activation_history = <<>>
    THEN [x |-> [x EXCEPT !.activation_history = RingPush(<<>>, x.capacity, event)],
          panic |-> FALSE]
    ELSE The({IF a.panic THEN [x |-> x, panic |-> TRUE]
              ELSE The({IF ~b.still_periodic THEN [x |-> b, panic |-> FALSE]
                        ELSE The({IF c.panic THEN [x |-> x, panic |-> TRUE]
                                  ELSE [x |-> extract_offset_and_jitter(c.x),
                                        panic |-> FALSE]
                                  : c \in {find_period(b, checks)}})
                        : b \in {update_still_periodic(update_period_range(a.x))}})
              : a \in {push_activation_and_update_average_gap(x, event)}})

\* variant of push_deactivation that does not copy the WCET into the model
push_deactivation_ModelUntouched(x, event) ==
    LET job == Unwrap(x.last_job)
        w == Max(x.wcet, job.execution_time)
    IN IF IsSome(x.last_job) /\ job.completed_at = event.instant
       THEN [x EXCEPT !.wcet = w]
       ELSE x

\* PeriodicTaskExtractor::push_deactivation
push_deactivation(x, event) ==
    LET job == Unwrap(x.last_job)
        w == Max(x.wcet, job.execution_time)
    IN IF IsSome(x.last_job) /\ job.completed_at = event.instant
       THEN [x EXCEPT !.wcet = w,
                      !.current_model = IF IsSome(@) THEN Some([Unwrap(@) EXCEPT !.wcet = w])
                                        ELSE @]
       ELSE x

\* PeriodicTaskExtractor::push_event
PeriodicPushEvent(x0, event, checks) ==
    The({LET x1 == [x0 EXCEPT !.job_detector = jr.je,
                              !.last_job = IF IsSome(jr.job) THEN jr.job ELSE @]
         IN IF jr.panic THEN [x |-> x0, changed |-> FALSE, panic |-> TRUE]
            ELSE IF event.etype = "Activation"
            THEN The({[x |-> IF act.panic THEN x0 ELSE act.x, changed |-> IsSome(jr.job),
                       panic |-> act.panic]
                      : act \in {push_activation(x1, event, checks)}})
            ELSE IF event.etype = "Deactivation"
            THEN [x |-> push_deactivation(x1, event), changed |-> IsSome(jr.job),
                  panic |-> FALSE]
            ELSE [x |-> x1, changed |-> IsSome(jr.job), panic |-> FALSE]
         : jr \in {JobPushEvent(x0.job_detector, event)}})

\* PeriodicTaskExtractor::is_matching / extract_model
PeriodicIsMatching(x) == x.still_periodic
PeriodicExtractModel(x) == x.current_model

(***************************************************************************)
(* spectral.rs : SpectralExtractor                                         *)
(* The spectrum itself is floating-point arithmetic over the sampled       *)
(* signal; its result is `spike`, the value fft() would return after its   *)
(* integer preamble (0 = no period detected).  fft_filter_cutoff only      *)
(* takes part in that floating-point computation.                          *)
(***************************************************************************)
\* PeriodicSelfSuspendingTask::default
PeriodicSelfSuspendingTaskDefault ==
    [period |-> 0, total_wcet |-> 0, total_wcss |-> 0,
     wcet |-> <<>>, ss |-> <<>>, segmented |-> FALSE]

\* SelfSuspendingJob::default
SelfSuspendingJobDefault ==
    [arrived_at |-> 0, completed_at |-> 0, total_execution |-> 0,
     total_suspension |-> 0, executions |-> <<>>, suspensions |-> <<>>]

\* SpectralExtractor::new ; capacity is the capacity of the AllocRingBuffer
\* job_history (oldest job first)
SpectralNew(max_signal_len, window_size) ==
    [max_signal_len |-> IF max_signal_len > 0 THEN next_power_of_two(max_signal_len) ELSE 0,
     capacity |-> next_power_of_two(window_size),
     job_history |-> <<>>,
     still_periodic |-> FALSE,
     job_detector |-> JobExtractorNew,
     current_model |-> None,
     min_gap |-> 0,
     wcet |-> 0]

\* SpectralExtractor::push_job ; job_history.get(-1) is the newest job;
\* panic = the Time subtraction went below zero
push_job(x, job) ==
    LET last == x.job_history[Len(x.job_history)]
        last_gap == job.arrived_at - last.arrived_at
        mg == IF x.job_history = <<>> THEN x.min_gap
              ELSE IF x.min_gap > 0 THEN Min(x.min_gap, last_gap)
              ELSE last_gap
    IN [x |-> [x EXCEPT !.min_gap = mg,
                        !.job_history = RingPush(x.job_history, x.capacity, job)],
        panic |-> x.job_history # <<>> /\ last_gap < 0]

\* SpectralExtractor::push_event
SpectralPushEvent(x, event) ==
    The({LET x1 == [x EXCEPT !.job_detector = d.je]
         IN IF d.panic THEN [x |-> x1, changed |-> FALSE, panic |-> TRUE]
            ELSE IF IsSome(d.job)
            THEN The({[x |-> r.x, changed |-> TRUE, panic |-> r.panic]
                      : r \in {push_job(x1, Unwrap(d.job))}})
            ELSE [x |-> x1, changed |-> FALSE, panic |-> FALSE]
         : d \in {JobPushEvent(x.job_detector, event)}})

RECURSIVE Pow2(_)
Pow2(n) == IF n = 0 THEN 1 ELSE 2 * Pow2(n - 1)

RECURSIVE BitLen(_)
BitLen(n) == IF n = 0 THEN 0 ELSE 1 + BitLen(n \div 2)

\* `self.min_gap.to_ns() as f32` : the integer rounded to F32MantissaBits
\* significant binary digits, to nearest, ties to even
F32MantissaBits == 24

F32Cast(n) ==
    IF BitLen(n) <= F32MantissaBits THEN n
    ELSE LET unit == Pow2(BitLen(n) - F32MantissaBits)
             q == n \div unit
             r == n % unit
         IN IF 2 * r > unit \/ (2 * r = unit /\ q % 2 = 1) THEN (q + 1) * unit
            ELSE q * unit

\* largest d > 0 for which the f32 logarithm of 10^m - d can come out as m.
\* log10(10^m - d) lies d / (10^m * ln 10) below m, and a log10 that errs by
\* less than one unit in the last place may return m as long as that is
\* less than the distance from m to the f32 below it: 2^-21 for m in 5..8,
\* 2^-20 for m = 9.
Log10Slack(m) ==
    IF m = 6 THEN 1 ELSE IF m = 7 THEN 10 ELSE IF m = 8 THEN 109
    ELSE IF m = 9 THEN 2195 ELSE 0

\* `(min_gap as f32).log10().floor() as u32` : the values a build can
\* produce.  log10(0) = -inf casts to 0; right below a power of ten the
\* rounding of the cast or of the logarithm can give the next magnitude.
Log10Floors(min_gap) ==
    IF min_gap = 0 THEN {0}
    ELSE The({IF k < 9 /\ Pow10(k + 1) - F32Cast(min_gap) <= Log10Slack(k + 1)
              THEN {k, k + 1} ELSE {k}
              : k \in {FloorLog10(F32Cast(min_gap))}})

\* the sampling resolution chosen by fft(), mag0 being the value of
\* `(min_gap as f32).log10().floor() as u32`:
\*   closest_lower_mag -= 1  : at 0 the u32 goes below zero; a build with
\*     overflow checks traps, otherwise it wraps to 2^32-1 and
\*     10u64.pow(2^32-1) wraps to 0, which fails the second assert!
\*   resolution = min(10^closest_lower_mag, 1 s)
\*   assert!(min_gap >= resolution); assert!(10 us <= resolution <= 1 s)
OneSecond == 1000000000
TenMicros == 10000

FftResolutionAt(min_gap, mag0) ==
    LET raw == IF mag0 = 0 THEN 0 ELSE Pow10(mag0 - 1)
        resolution == IF raw > OneSecond THEN OneSecond ELSE raw
    IN [resolution |-> resolution,
        panic |-> \/ mag0 = 0
                  \/ min_gap < resolution
                  \/ resolution < TenMicros
                  \/ resolution > OneSecond]

\* the resolution for a min_gap away from the powers of ten, where the
\* logarithm has one possible magnitude (the gaps of the job streams fed to
\* fft() are such)
FftResolution(min_gap) == FftResolutionAt(min_gap, The(Log10Floors(min_gap)))

\* the loop of fft() that lays the peaks out on the sampled signal: returns
\* the final signal_len and the number of samples pushed
RECURSIVE BuildSignal(_, _, _, _, _, _, _)
BuildSignal(h, k, first, resolution, signal_len, pushed, prev_peak_idx) ==
    IF k > Len(h) THEN [signal_len |-> signal_len, pushed |-> pushed]
    ELSE LET peak_idx == Truncate(h[k].arrived_at - first, resolution) \div resolution
         IN IF peak_idx > signal_len
            THEN [signal_len |-> pushed, pushed |-> pushed]
            ELSE BuildSignal(h, k + 1, first, resolution, signal_len,
                             pushed + (peak_idx - prev_peak_idx), peak_idx)

\* SpectralExtractor::fft ; panic = the decrement trapped, an assert! failed
\* or a subtraction went below zero
fft(x, spike) ==
    LET first_arr == RingGet(x.job_history, 0).arrived_at
        back == x.job_history[Len(x.job_history)].arrived_at
    IN The({LET len0 == ((back - first_arr) \div res.resolution) + 1
                signal_len == IF x.max_signal_len > 0 /\ len0 > x.max_signal_len
                              THEN x.max_signal_len ELSE len0
            IN IF res.panic \/ back < first_arr THEN [period |-> 0, panic |-> TRUE]
               ELSE The({IF sig.signal_len # sig.pushed THEN [period |-> 0, panic |-> TRUE]
                         ELSE IF sig.signal_len \div 2 + 1 <= 1
                         THEN [period |-> 0, panic |-> FALSE]
                         ELSE [period |-> spike, panic |-> FALSE]
                         : sig \in {BuildSignal(x.job_history, 2, first_arr, res.resolution,
                                                signal_len, 1, 0)}})
            : res \in {FftResolution(x.min_gap)}})

\* element-wise maximum of a worst-case vector with the values of one job
VecMax(worst, seen) ==
    [i \in 1..Len(worst) |-> IF i <= Len(seen) THEN Max(worst[i], seen[i]) ELSE worst[i]]

\* `resize_with(n, Default::default)` on an empty vector
Zeros(n) == [i \in 1..n |-> 0]

\* the "Finalize previous self-suspending job" block of detect_suspensions
FinalizeGroup(st) ==
    LET curr == st.curr
        n == Len(curr.executions)
        broke == st.n_exec_segments > 0 /\ n # st.n_exec_segments
        m1 == IF broke
              THEN [st.model EXCEPT !.segmented = FALSE, !.wcet = <<>>, !.ss = <<>>]
              ELSE st.model
    IN The({LET lens_ok == /\ Len(curr.executions) = Len(m2.wcet)
                           /\ Len(curr.suspensions) = Len(m2.ss)
                upd == m2.segmented /\ lens_ok
            IN [st EXCEPT !.model = [m2 EXCEPT
                              !.wcet = IF upd THEN VecMax(@, curr.executions) ELSE @,
                              !.ss = IF upd THEN VecMax(@, curr.suspensions) ELSE @,
                              !.total_wcet = Max(@, curr.total_execution),
                              !.total_wcss = Max(@, curr.total_suspension)],
                          !.n_exec_segments = n,
                          !.curr = [curr EXCEPT !.completed_at = st.prev_job.completed_at],
                          !.panic = \/ n = 0
                                    \/ Len(curr.suspensions) # n - 1
                                    \/ (m2.segmented /\ ~lens_ok)]
            : m2 \in {IF m1.segmented /\ m1.wcet = <<>> /\ m1.ss = <<>>
                      THEN [m1 EXCEPT !.wcet = Zeros(n), !.ss = Zeros(n - 1)]
                      ELSE m1}})

\* one iteration of the `for job in self.job_history.iter()` loop
DetectStep(st, job, period, first_arrival_ts) ==
    LET gap == job.arrived_at - st.prev_job.completed_at
    IN IF ~(job.arrived_at > st.prev_job.completed_at) THEN [st EXCEPT !.panic = TRUE]
       ELSE IF job.arrived_at >= st.next_arrival_ts
       THEN The({IF fin.panic THEN fin
                 ELSE [fin EXCEPT !.curr = [SelfSuspendingJobDefault EXCEPT
                                               !.arrived_at = job.arrived_at,
                                               !.executions = <<job.execution_time>>,
                                               !.total_execution = job.execution_time],
                                  !.next_arrival_ts = fin.next_arrival_ts + period,
                                  !.prev_job = job]
                 : fin \in {IF st.next_arrival_ts > first_arrival_ts
                            THEN FinalizeGroup(st) ELSE st}})
       ELSE [st EXCEPT !.curr = [st.curr EXCEPT
                                    !.total_execution = @ + job.execution_time,
                                    !.executions = Append(@, job.execution_time),
                                    !.total_suspension = @ + gap,
                                    !.suspensions = Append(@, gap)],
                       !.prev_job = job]

\* the `for` loop; trail records curr_job_ss and next_arrival_ts at the end
\* of each iteration
RECURSIVE DetectLoop(_, _, _, _, _)
DetectLoop(st, h, k, period, first_arrival_ts) ==
    IF k > Len(h) \/ st.panic THEN st
    ELSE The({DetectLoop([nx EXCEPT !.trail = Append(@, [curr |-> nx.curr,
                                                          next_arrival_ts |-> nx.next_arrival_ts])],
                         h, k + 1, period, first_arrival_ts)
              : nx \in {DetectStep(st, h[k], period, first_arrival_ts)}})

\* SpectralExtractor::detect_suspensions ; panic = an assert! failed
detect_suspensions(x, period) ==
    LET first_arrival_ts == RingGet(x.job_history, 0).arrived_at
        st0 == [model |-> [PeriodicSelfSuspendingTaskDefault EXCEPT
                              !.segmented = TRUE, !.period = period],
                curr |-> SelfSuspendingJobDefault,
                prev_job |-> Job(0, 0, 0, 0),
                n_exec_segments |-> 0,
                next_arrival_ts |-> first_arrival_ts,
                panic |-> FALSE,
                trail |-> <<>>]
    IN The({[model |-> st.model, panic |-> st.panic, trail |-> st.trail]
            : st \in {DetectLoop(st0, x.job_history, 1, period, first_arrival_ts)}})

\* SpectralExtractor::extract
extract(x, spike) ==
    IF Len(x.job_history) > 1
    THEN The({IF f.panic THEN [x |-> x, panic |-> TRUE]
              ELSE IF f.period = 0
              THEN [x |-> [x EXCEPT !.still_periodic = FALSE, !.current_model = None],
                    panic |-> FALSE]
              ELSE The({[x |-> [x EXCEPT !.still_periodic = TRUE,
                                         !.current_model = Some(d.model)],
                         panic |-> d.panic]
                        : d \in {detect_suspensions(x, f.period)}})
              : f \in {fft(x, spike)}})
    ELSE [x |-> x, panic |-> FALSE]

\* SpectralExtractor::is_matching / extract_model
SpectralIsMatching(x) == x.still_periodic
SpectralExtractModel(x, spike) ==
    The({[x |-> r.x, model |-> r.x.current_model, panic |-> r.panic]
         : r \in {extract(x, spike)}})

(***************************************************************************)
(* composite.rs : CompositeModelExtractor                                  *)
(***************************************************************************)
\* CompositeModel::new
CompositeModel(periodic, periodic_ss, rbf) ==
    [periodic |-> periodic, periodic_ss |-> periodic_ss, rbf |-> rbf]

\* CompositeModelExtractor::from_params
CompositeNew(j_max, resolution, max_signal_len, window_size, rbf_window_size, periodic_enabled, spectral_enabled, rbf_enabled) ==
    [periodic_extractor |-> PeriodicNew(j_max, resolution),
     spectral_extractor |-> SpectralNew(max_signal_len, window_size),
     rbf_extractor |-> RBFExtractorNew(rbf_window_size),
     periodic_enabled |-> periodic_enabled,
     spectral_enabled |-> spectral_enabled,
     rbf_enabled |-> rbf_enabled]

\* the three steps of CompositeModelExtractor::push_event; a carries the
\* extractor, the `changed` flags or-ed so far, and whether a step aborted
PushRbf(a, event) ==
    IF a.x.rbf_enabled /\ ~a.panic
    THEN The({[x |-> [a.x EXCEPT !.rbf_extractor = r.x],
               changed |-> a.changed \/ IsSome(r.job), panic |-> r.panic]
              : r \in {RBFPushEvent(a.x.rbf_extractor, event)}})
    ELSE a

PushPeriodic(a, event, checks) ==
    IF a.x.periodic_enabled /\ ~a.panic
    THEN The({[x |-> [a.x EXCEPT !.periodic_extractor = r.x],
               changed |-> a.changed \/ r.changed, panic |-> r.panic]
              : r \in {PeriodicPushEvent(a.x.periodic_extractor, event, checks)}})
    ELSE a

PushSpectral(a, event) ==
    IF a.x.spectral_enabled /\ ~a.panic
    THEN The({[x |-> [a.x EXCEPT !.spectral_extractor = r.x],
               changed |-> a.changed \/ r.changed, panic |-> r.panic]
              : r \in {SpectralPushEvent(a.x.spectral_extractor, event)}})
    ELSE a

\* CompositeModelExtractor::push_event : rbf, periodic, spectral in that
\* order; a panic in one extractor ends the call
CompositePushEvent(c, event, checks) ==
    The({The({PushSpectral(a2, event) : a2 \in {PushPeriodic(a1, event, checks)}})
         : a1 \in {PushRbf([x |-> c, changed |-> FALSE, panic |-> FALSE], event)}})

\* variant of the hierarchy that consults the spectral extractor whenever it
\* is enabled
ConsultSpectral_Always(c, periodic) == c.spectral_enabled

\* `if self.spectral_enabled && periodic.is_none()`
ConsultSpectral(c, periodic) == c.spectral_enabled /\ ~IsSome(periodic)

\* CompositeModelExtractor::extract_model
CompositeExtractModel(c, spike) ==
    LET rbf == IF c.rbf_enabled THEN c.rbf_extractor.rbf ELSE RbfCurveNew(0, 1)
        periodic == IF c.periodic_enabled
                    THEN PeriodicExtractModel(c.periodic_extractor) ELSE None
    IN IF ConsultSpectral(c, periodic)
       THEN The({[x |-> [c EXCEPT !.spectral_extractor = s.x],
                  model |-> IF s.panic THEN None
                            ELSE Some(CompositeModel(periodic, s.model, rbf)),
                  panic |-> s.panic]
                 : s \in {SpectralExtractModel(c.spectral_extractor, spike)}})
       ELSE [x |-> c, model |-> Some(CompositeModel(periodic, None, rbf)),
             panic |-> FALSE]

(***************************************************************************)
(* arrival/arr.rs, arrival/invocation_cycle.rs : Arrival, InvocationCycle  *)
(***************************************************************************)
\* u64::MAX.  TLC integers are 32 bits wide; the value is only
\* compared with (never added to) the instants explored, all far below it.
U64Max == 2147483647

\* Arrival::new
Arrival(instant, cost, ss_time, ss_cnt) ==
    [instant |-> instant, idx |-> 0, cost |-> cost, ss_time |-> ss_time,
     ss_cnt |-> ss_cnt, t_avg_min |-> U64Max, t_avg_max |-> 0, buf_prio |-> 0]

\* InvocationCycle::new
InvocationCycleNew(pid, heuristic, timeout) ==
    [pid |-> pid, activation |-> 0, last_event_type |-> None, last_event_time |-> 0,
     curr_cost |-> 0, curr_ss_time |-> 0, curr_ss_cnt |-> 0,
     heuristic |-> heuristic, timeout |-> timeout]

\* InvocationCycle::reset
IcReset(ic) ==
    [ic EXCEPT !.activation = 0, !.last_event_type = None, !.last_event_time = 0,
               !.curr_cost = 0, !.curr_ss_time = 0, !.curr_ss_cnt = 0]

\* what a transition yields: the cycle, the Arrival emitted (if any), and
\* whether an assert! failed
IcResult(ic, arrival, panic) == [ic |-> ic, arrival |-> arrival, panic |-> panic]

\* the cycle restarted by an Activation at `instant`
IcStarted(ic, instant) ==
    [IcReset(ic) EXCEPT !.activation = instant, !.last_event_time = instant,
                        !.last_event_type = Some("Activation")]

\* variant of the Activation transition that ends the cycle as soon as the gap
\* reaches the timeout
IcActivation_EndAtTimeout(ic, instant) ==
    IF IsSome(ic.last_event_type) /\ ~(instant > ic.last_event_time)
    THEN IcResult(ic, None, TRUE)
    ELSE IF ic.last_event_type = Some("Deactivation")
    THEN IF ic.heuristic # "SuspensionTimeout" THEN IcResult(ic, None, TRUE)
         ELSE IF instant - ic.last_event_time >= ic.timeout
         THEN IcResult(IcStarted(ic, instant),
                       Some(Arrival(ic.activation, ic.curr_cost, ic.curr_ss_time,
                                    ic.curr_ss_cnt)),
                       FALSE)
         ELSE IcResult([ic EXCEPT !.curr_ss_time = @ + (instant - ic.last_event_time),
                                  !.curr_ss_cnt = @ + 1,
                                  !.last_event_time = instant,
                                  !.last_event_type = Some("Activation")],
                       None, FALSE)
    ELSE IF ic.last_event_type = None THEN IcResult(IcStarted(ic, instant), None, FALSE)
    ELSE IcResult(IcReset(ic), None, FALSE)

\* InvocationCycle::activation
IcActivation(ic, instant) ==
    IF IsSome(ic.last_event_type) /\ ~(instant > ic.last_event_time)
    THEN IcResult(ic, None, TRUE)
    ELSE IF ic.last_event_type = Some("Deactivation")
    THEN IF ic.heuristic # "SuspensionTimeout" THEN IcResult(ic, None, TRUE)
         ELSE IF instant - ic.last_event_time > ic.timeout
         THEN IcResult(IcStarted(ic, instant),
                       Some(Arrival(ic.activation, ic.curr_cost, ic.curr_ss_time,
                                    ic.curr_ss_cnt)),
                       FALSE)
         ELSE IcResult([ic EXCEPT !.curr_ss_time = @ + (instant - ic.last_event_time),
                                  !.curr_ss_cnt = @ + 1,
                                  !.last_event_time = instant,
                                  !.last_event_type = Some("Activation")],
                       None, FALSE)
    ELSE IF ic.last_event_type = None THEN IcResult(IcStarted(ic, instant), None, FALSE)
    ELSE IcResult(IcReset(ic), None, FALSE)

\* InvocationCycle::resume
IcResume(ic, instant) ==
    IF ic.last_event_type = Some("Activation")
    THEN IcResult([ic EXCEPT !.last_event_type = Some("Dispatch"),
                             !.last_event_time = instant],
                  None, ~(instant >= ic.last_event_time))
    ELSE IF ic.last_event_type = Some("Preemption")
    THEN IcResult([ic EXCEPT !.last_event_type = Some("Dispatch"),
                             !.last_event_time = instant],
                  None, ~(instant > ic.last_event_time))
    ELSE IcResult(IcReset(ic), None, FALSE)

\* InvocationCycle::preemption
IcPreemption(ic, instant) ==
    IF IsSome(ic.last_event_type) /\ ~(instant > ic.last_event_time)
    THEN IcResult(ic, None, TRUE)
    ELSE IF ic.last_event_type = Some("Dispatch")
    THEN IcResult([ic EXCEPT !.last_event_type = Some("Preemption"),
                             !.curr_cost = @ + (instant - ic.last_event_time),
                             !.last_event_time = instant],
                  None, FALSE)
    ELSE IcResult(IcReset(ic), None, FALSE)

\* variant of the Deactivation transition that leaves the last running
\* interval out of the cost
IcDeactivation_NoLastRun(ic, instant) ==
    IF IsSome(ic.last_event_type) /\ ~(instant > ic.last_event_time)
    THEN IcResult(ic, None, TRUE)
    ELSE IF ic.last_event_type = Some("Dispatch")
    THEN IF ic.heuristic = "Suspension"
         THEN IcResult(IcReset(ic),
                       Some(Arrival(ic.activation, ic.curr_cost, 0, 0)),
                       ~(ic.curr_ss_time = 0 /\ ic.curr_ss_cnt = 0))
         ELSE IcResult([ic EXCEPT !.last_event_type = Some("Deactivation"),
                                  !.curr_cost = @ + (instant - ic.last_event_time),
                                  !.last_event_time = instant],
                       None, FALSE)
    ELSE IcResult(IcReset(ic), None, FALSE)

\* InvocationCycle::deactivation
IcDeactivation(ic, instant) ==
    IF IsSome(ic.last_event_type) /\ ~(instant > ic.last_event_time)
    THEN IcResult(ic, None, TRUE)
    ELSE IF ic.last_event_type = Some("Dispatch")
    THEN IF ic.heuristic = "Suspension"
         THEN IcResult(IcReset(ic),
                       Some(Arrival(ic.activation,
                                    ic.curr_cost + instant - ic.last_event_time, 0, 0)),
                       ~(ic.curr_ss_time = 0 /\ ic.curr_ss_cnt = 0))
         ELSE IcResult([ic EXCEPT !.last_event_type = Some("Deactivation"),
                                  !.curr_cost = @ + (instant - ic.last_event_time),
                                  !.last_event_time = instant],
                       None, FALSE)
    ELSE IcResult(IcReset(ic), None, FALSE)

\* InvocationCycle::exit
IcExit(ic, instant) ==
    IF IsSome(ic.last_event_type)
    THEN IcResult(IcReset(ic),
                  Some(Arrival(ic.activation,
                               IF ic.last_event_type = Some("Dispatch")
                               THEN ic.curr_cost + instant - ic.last_event_time
                               ELSE ic.curr_cost,
                               ic.curr_ss_time, ic.curr_ss_cnt)),
                  ~(instant > ic.last_event_time))
    ELSE IcResult(IcReset(ic), None, FALSE)

\* InvocationCycle::update_activation_cycle
update_activation_cycle(ic, event) ==
    IF event.etype = "Activation" THEN IcActivation(ic, event.instant)
    ELSE IF event.etype = "Deactivation" THEN IcDeactivation(ic, event.instant)
    ELSE IF event.etype = "Preemption" THEN IcPreemption(ic, event.instant)
    ELSE IF event.etype = "Dispatch" THEN IcResume(ic, event.instant)
    ELSE IcExit(ic, event.instant)

(***************************************************************************)
(* HashMap<Pid, V> : a function whose domain is the set of keys present    *)
(***************************************************************************)
EmptyMap == [p \in {} |-> None]
MapGet(map, k) == IF k \in DOMAIN map THEN Some(map[k]) ELSE None
MapPut(map, k, v) == [p \in DOMAIN map \cup {k} |-> IF p = k THEN v ELSE map[p]]

(***************************************************************************)
(* arrival/arrival_subset.rs : PeriodRange, ArrivalSequenceSubset          *)
(***************************************************************************)
\* PeriodRange::new
PeriodRangeNew(t_min, t_max) == [t_min |-> t_min, t_max |-> t_max, is_empty |-> FALSE]

\* PeriodRange::default
PeriodRangeDefault == [t_min |-> 1, t_max |-> U64Max - 1, is_empty |-> TRUE]

\* PeriodRange::intersect
PeriodRangeIntersect(self, other) ==
    IF other.t_min > self.t_max \/ self.t_min > other.t_max
    THEN None
    ELSE Some(PeriodRangeNew(Max(self.t_min, other.t_min), Min(self.t_max, other.t_max)))

\* PeriodRange::contains
PeriodRangeContains(self, num) ==
    IF ~self.is_empty THEN self.t_min <= num /\ num <= self.t_max ELSE FALSE

\* ArrivalSequenceSubset::new
ArrivalSequenceSubsetNew(pid, buf_size, jitter_bound) ==
    [arrivals |-> <<>>, pid |-> pid, buf_size |-> buf_size, last_arrival |-> None,
     min_interarrival |-> 0, wcet |-> 0, tot_observations |-> 0,
     t_interval |-> PeriodRangeDefault, jitter_bound |-> jitter_bound]

\* Ord for Arrival, as used by sort_by(|a, b| b.cmp(a)): a is placed before b
\* when it has the higher priority or, on a tie, the lower idx
PriorityBefore(a, b) ==
    a.buf_prio > b.buf_prio \/ (a.buf_prio = b.buf_prio /\ a.idx < b.idx)

RECURSIVE InsertByPriority(_, _)
InsertByPriority(sorted, a) ==
    IF sorted = <<>> THEN <<a>>
    ELSE IF PriorityBefore(a, Head(sorted)) THEN <<a>> \o sorted
    ELSE <<Head(sorted)>> \o InsertByPriority(Tail(sorted), a)

\* self.arrivals.sort_by(|a, b| b.cmp(a)) ; idx values are distinct, so the
\* order is total
RECURSIVE SortByPriority(_)
SortByPriority(s) ==
    IF s = <<>> THEN <<>>
    ELSE InsertByPriority(SortByPriority(Tail(s)), Head(s))

\* add_arrival up to the loop: idx, tot_observations, wcet, min_interarrival.
\* The instants an InvocationCycle hands over strictly increase, so the
\* unsigned difference does not wrap.
SubsetObserve(s, arrival) ==
    [s EXCEPT !.tot_observations = @ + 1,
              !.wcet = Max(@, arrival.cost),
              !.min_interarrival =
                  IF IsSome(s.last_arrival)
                  THEN IF @ = 0
                       THEN arrival.instant - Unwrap(s.last_arrival).instant
                       ELSE Min(@, arrival.instant - Unwrap(s.last_arrival).instant)
                  ELSE @]

\* ---- f64 arithmetic of add_arrival -------------------------------------
\* An f64 >= 0 is [int, frac]: its integer part and the binary digits after
\* the point, held as Limbs numbers of LimbBits digits each, the most
\* significant first.  Every operation rounds its exact result to
\* MantissaBits significant digits, to nearest, ties to even, as the
\* hardware does.  The values met are below 2^31 and, unless zero, above
\* 2^-10, so that the limbs hold every rounded result.
MantissaBits == 53
LimbBits == 16
Limbs == 4

\* the limbs of r / l (r < l < 2^15) after the point; sticky = the quotient
\* goes on after them
RECURSIVE Expand(_, _, _, _)
Expand(r, l, k, acc) ==
    IF k = 0 THEN [frac |-> acc, sticky |-> r # 0]
    ELSE Expand((r * Pow2(LimbBits)) % l, l, k - 1,
                Append(acc, (r * Pow2(LimbBits)) \div l))

\* number of zero digits that frac starts with, from limb i on
RECURSIVE LeadingZeros(_, _)
LeadingZeros(frac, i) ==
    IF i > Limbs THEN 0
    ELSE IF frac[i] # 0 THEN LimbBits - BitLen(frac[i])
    ELSE LimbBits + LeadingZeros(frac, i + 1)

\* add one to limb i of frac, carrying upwards into the integer part
RECURSIVE AddUnit(_, _, _)
AddUnit(int, frac, i) ==
    IF i = 0 THEN [int |-> int + 1, frac |-> frac]
    ELSE IF frac[i] + 1 < Pow2(LimbBits)
    THEN [int |-> int, frac |-> [frac EXCEPT ![i] = @ + 1]]
    ELSE AddUnit(int, [frac EXCEPT ![i] = 0], i - 1)

\* round the exact value int.frac (sticky: followed by more non-zero digits)
\* to MantissaBits significant digits.  keep digits of frac stay; li is the
\* limb of the first digit dropped, of which the drop lowest digits go.
F64Round(int, frac, sticky) ==
    LET zero == int = 0 /\ \A i \in 1..Limbs : frac[i] = 0
        keep == IF int > 0 THEN MantissaBits - BitLen(int)
                ELSE LeadingZeros(frac, 1) + MantissaBits
        li == (keep \div LimbBits) + 1
        drop == LimbBits - (keep % LimbBits)
        low == frac[li] % Pow2(drop)
        half == Pow2(drop - 1)
        rest == sticky \/ low % half # 0 \/ \E i \in (li + 1)..Limbs : frac[i] # 0
        odd == IF drop < LimbBits THEN (frac[li] \div Pow2(drop)) % 2 = 1
               ELSE IF li > 1 THEN frac[li - 1] % 2 = 1
               ELSE int % 2 = 1
        cut == [i \in 1..Limbs |-> IF i < li THEN frac[i]
                                   ELSE IF i = li THEN frac[li] - low ELSE 0]
    IN IF zero \/ keep >= Limbs * LimbBits THEN [int |-> int, frac |-> frac]
       ELSE IF low >= half /\ (rest \/ odd)
       THEN (IF drop = LimbBits THEN AddUnit(int, cut, li - 1)
             ELSE IF cut[li] + Pow2(drop) < Pow2(LimbBits)
             THEN [int |-> int, frac |-> [cut EXCEPT ![li] = @ + Pow2(drop)]]
             ELSE AddUnit(int, [cut EXCEPT ![li] = 0], li - 1))
       ELSE [int |-> int, frac |-> cut]

\* `a as f64 / l as f64` for u64 values a, l >= 1 that an f64 holds exactly
F64Div(a, l) ==
    The({F64Round(a \div l, e.frac, e.sticky) : e \in {Expand(a % l, l, Limbs, <<>>)}})

\* the limbs i .. Limbs of x - y (sign = -1) or x + y (sign = 1), with the
\* borrow or carry c out of limb i
RECURSIVE Combine(_, _, _, _)
Combine(x, y, sign, i) ==
    IF i > Limbs THEN [frac |-> <<>>, c |-> 0]
    ELSE The({LET v == x[i] + sign * (y[i] + low.c)
              IN [frac |-> <<v % Pow2(LimbBits)>> \o low.frac,
                  c |-> IF v < 0 \/ v >= Pow2(LimbBits) THEN 1 ELSE 0]
              : low \in {Combine(x, y, sign, i + 1)}})

\* x - y for x >= y, and x + y
F64Sub(x, y) ==
    The({F64Round(x.int - y.int - r.c, r.frac, FALSE)
         : r \in {Combine(x.frac, y.frac, -1, 1)}})
F64Add(x, y) ==
    The({F64Round(x.int + y.int + r.c, r.frac, FALSE)
         : r \in {Combine(x.frac, y.frac, 1, 1)}})

\* f64::floor and f64::ceil, cast to u64
F64Floor(x) == x.int
F64Ceil(x) == IF \E i \in 1..Limbs : x.frac[i] # 0 THEN x.int + 1 ELSE x.int

\* the interval one stored arrival yields, and floor(t_avg):
\*   t_avg = d as f64 / l as f64 ; error = jitter_bound as f64 / l as f64
\*   t_min = ceil(max(t_avg - error, 1.0)) ; t_max = floor(t_avg + error)
\* d <= jitter_bound gives t_avg <= error, where the maximum is 1.0
ObservedRange(d, l, jitter_bound) ==
    The({LET diff == F64Sub(q.t_avg, q.error)
         IN [t_min |-> IF d <= jitter_bound \/ diff.int = 0 THEN 1 ELSE F64Ceil(diff),
             t_max |-> F64Floor(F64Add(q.t_avg, q.error)),
             t_avg |-> F64Floor(q.t_avg)]
         : q \in {[t_avg |-> F64Div(d, l), error |-> F64Div(jitter_bound, l)]}})

\* one iteration of `for arr in &mut self.arrivals` on the k-th stored
\* arrival.  st = [arrivals, t_interval, new_arrival, stop]; stop records the
\* early `return None`.
UpdateArrival(st, k, jitter_bound) ==
    LET arr == st.arrivals[k]
        l == st.new_arrival.idx - arr.idx
        d == st.new_arrival.instant - arr.instant
        obs == ObservedRange(d, l, jitter_bound)
        t_min == obs.t_min
        t_max == obs.t_max
        t_avg == obs.t_avg
    IN The({IF IsSome(inter)
            THEN [arrivals |-> [st.arrivals EXCEPT
                        ![k] = [arr EXCEPT
                           !.t_avg_min = Min(t_avg, arr.t_avg_min),
                           !.t_avg_max = Max(t_avg, arr.t_avg_max),
                           !.buf_prio = Max(t_avg, arr.t_avg_max)
                                        - Min(t_avg, arr.t_avg_min)]],
                  t_interval |-> Unwrap(inter),
                  new_arrival |-> [st.new_arrival EXCEPT
                           !.t_avg_min = Min(t_avg, @),
                           !.t_avg_max = Max(t_avg, @),
                           !.buf_prio = Max(t_avg, st.new_arrival.t_avg_max)
                                        - Min(t_avg, st.new_arrival.t_avg_min)],
                  stop |-> FALSE]
            ELSE [st EXCEPT !.t_interval.is_empty = TRUE, !.stop = TRUE]
            : inter \in {PeriodRangeIntersect(st.t_interval, PeriodRangeNew(t_min, t_max))}})

RECURSIVE PeriodLoop(_, _, _)
PeriodLoop(st, k, jitter_bound) ==
    IF k > Len(st.arrivals) \/ st.stop THEN st
    ELSE PeriodLoop(UpdateArrival(st, k, jitter_bound), k + 1, jitter_bound)

\* variant of the store step in which the new arrival also replaces a stored
\* arrival of the same priority
SubsetStore_ReplaceOnTie(s, st) ==
    IF st.stop
    THEN [s |-> [s EXCEPT !.arrivals = st.arrivals, !.t_interval = st.t_interval],
          range |-> None, panic |-> FALSE]
    ELSE The({[s |-> [s EXCEPT
                   !.arrivals =
                       IF Len(sorted) >= s.buf_size
                       THEN IF sorted = <<>> THEN sorted
                            ELSE IF st.new_arrival.buf_prio >= sorted[Len(sorted)].buf_prio
                                 THEN SubSeq(sorted, 1, Len(sorted) - 1) \o <<st.new_arrival>>
                                 ELSE sorted
                       ELSE Append(sorted, st.new_arrival),
                   !.t_interval = st.t_interval,
                   !.last_arrival = Some(st.new_arrival)],
               range |-> Some(st.t_interval),
               panic |-> Len(sorted) >= s.buf_size /\ sorted = <<>>]
              : sorted \in {SortByPriority(st.arrivals)}})

\* add_arrival after the loop: sort, replace the lowest priority entry of a
\* full buffer, remember the arrival
SubsetStore(s, st) ==
    IF st.stop
    THEN [s |-> [s EXCEPT !.arrivals = st.arrivals, !.t_interval = st.t_interval],
          range |-> None, panic |-> FALSE]
    ELSE The({[s |-> [s EXCEPT
                   !.arrivals =
                       IF Len(sorted) >= s.buf_size
                       THEN IF sorted = <<>> THEN sorted
                            ELSE IF st.new_arrival.buf_prio > sorted[Len(sorted)].buf_prio
                                 THEN SubSeq(sorted, 1, Len(sorted) - 1) \o <<st.new_arrival>>
                                 ELSE sorted
                       ELSE Append(sorted, st.new_arrival),
                   !.t_interval = st.t_interval,
                   !.last_arrival = Some(st.new_arrival)],
               range |-> Some(st.t_interval),
               panic |-> Len(sorted) >= s.buf_size /\ sorted = <<>>]
              : sorted \in {SortByPriority(st.arrivals)}})

\* ArrivalSequenceSubset::add_arrival ; panic = the assert! on the instant
\* (or the unwrap of pop() on an empty buffer of size 0) failed
SubsetAddArrival(s, arrival) ==
    IF ~(arrival.instant >= s.jitter_bound)
    THEN [s |-> s, range |-> None, panic |-> TRUE]
    ELSE The({SubsetStore(SubsetObserve(s, arrival), st)
              : st \in {PeriodLoop([arrivals |-> s.arrivals,
                                    t_interval |-> s.t_interval,
                                    new_arrival |-> [arrival EXCEPT !.idx = s.tot_observations],
                                    stop |-> FALSE],
                                   1, s.jitter_bound)}})

(***************************************************************************)
(* period_selection.rs                                                     *)
(***************************************************************************)
\* roundness: the number of trailing decimal zeroes
RECURSIVE roundness(_)
roundness(n) == IF n > 0 /\ n % 10 = 0 THEN 1 + roundness(n \div 10) ELSE 0

SnapNs == 1000

\* variant of pick_period_heuristic that snaps down when neither multiple
\* is inside the range
pick_period_heuristic_SnapDown(feasible_periods) ==
    IF ~feasible_periods.is_empty
    THEN LET median == (feasible_periods.t_min + feasible_periods.t_max) \div 2
             left_dist == median % SnapNs
             right_dist == SnapNs - left_dist
             left_mult == median - left_dist
             right_mult == median + right_dist
             in_left == PeriodRangeContains(feasible_periods, left_mult)
             in_right == PeriodRangeContains(feasible_periods, right_mult)
         IN IF in_left /\ ~in_right THEN left_mult
            ELSE IF ~in_left /\ in_right THEN right_mult
            ELSE IF ~in_left /\ ~in_right THEN left_mult
            ELSE IF roundness(left_mult) < roundness(right_mult) THEN right_mult
            ELSE IF roundness(left_mult) > roundness(right_mult) THEN left_mult
            ELSE IF left_dist > right_dist THEN right_mult
            ELSE left_mult
    ELSE 0

\* `((t_min + t_max) as f64 / 2.).floor() as u64` is the integer quotient for
\* sums below 2^53, which the f64 holds exactly
\* pick_period_heuristic
pick_period_heuristic(feasible_periods) ==
    IF ~feasible_periods.is_empty
    THEN LET median == (feasible_periods.t_min + feasible_periods.t_max) \div 2
             left_dist == median % SnapNs
             right_dist == SnapNs - left_dist
             left_mult == median - left_dist
             right_mult == median + right_dist
             in_left == PeriodRangeContains(feasible_periods, left_mult)
             in_right == PeriodRangeContains(feasible_periods, right_mult)
         IN IF in_left /\ ~in_right THEN left_mult
            ELSE IF ~in_left /\ in_right THEN right_mult
            ELSE IF ~in_left /\ ~in_right THEN median
            ELSE IF roundness(left_mult) < roundness(right_mult) THEN right_mult
            ELSE IF roundness(left_mult) > roundness(right_mult) THEN left_mult
            ELSE IF left_dist > right_dist THEN right_mult
            ELSE left_mult
    ELSE 0

(***************************************************************************)
(* model.rs : ScalarTaskModel ; mm_scalar.rs : ScalarMM                    *)
(***************************************************************************)
\* ScalarTaskModel::sporadic
sporadic(execution_time, mit) ==
    [execution_time |-> execution_time,
     arrival_model |-> [kind |-> "Sporadic", mit |-> mit]]

\* ScalarTaskModel::periodic_jitter
periodic_jitter(execution_time, period, jitter) ==
    [execution_time |-> execution_time,
     arrival_model |-> [kind |-> "PeriodicJitter", period |-> period, jitter |-> jitter]]

\* ScalarTaskModel::periodic_jitter_offset
periodic_jitter_offset(execution_time, period, jitter, offset) ==
    [execution_time |-> execution_time,
     arrival_model |-> [kind |-> "PeriodicJitterOffset", period |-> period,
                        offset |-> offset, jitter |-> jitter]]

\* ScalarTaskModel::pjo_to_pj
pjo_to_pj(m) ==
    IF m.arrival_model.kind \in {"PeriodicJitterOffset", "PeriodicJitter"}
    THEN Some(periodic_jitter(m.execution_time, m.arrival_model.period,
                              m.arrival_model.jitter))
    ELSE None

DefaultJitterBound == 1500000
DefaultBufSize == 1000

\* ScalarMM::new ; matched_models and chosen_models are never written
ScalarMMNew(jitter_bound, buf_size) ==
    [arrival_buffers |-> EmptyMap,
     jitter_bound |-> IF jitter_bound = 0 THEN DefaultJitterBound ELSE jitter_bound,
     buf_size |-> IF buf_size = 0 THEN DefaultBufSize ELSE buf_size]

\* ScalarMM::update_internal_state
update_internal_state(mm, pid, arrival) ==
    The({[mm |-> [mm EXCEPT !.arrival_buffers = MapPut(@, pid, r.s)],
          panic |-> r.panic]
         : r \in {SubsetAddArrival(
                      IF pid \in DOMAIN mm.arrival_buffers
                      THEN mm.arrival_buffers[pid]
                      ELSE ArrivalSequenceSubsetNew(pid, mm.buf_size, mm.jitter_bound),
                      arrival)}})

\* match_sporadic
match_sporadic(arr_seq) ==
    IF arr_seq.min_interarrival > 0
    THEN Some(sporadic(arr_seq.wcet, arr_seq.min_interarrival))
    ELSE None

RECURSIVE InsertByIdx(_, _)
InsertByIdx(sorted, a) ==
    IF sorted = <<>> THEN <<a>>
    ELSE IF a.idx < Head(sorted).idx THEN <<a>> \o sorted
    ELSE <<Head(sorted)>> \o InsertByIdx(Tail(sorted), a)

\* arrivals_sorted.sort_by(|a, b| a.idx.cmp(&b.idx))
RECURSIVE SortByIdx(_)
SortByIdx(s) == IF s = <<>> THEN <<>> ELSE InsertByIdx(SortByIdx(Tail(s)), Head(s))

Abs(n) == IF n < 0 THEN 0 - n ELSE n

\* the `for arr in &arrivals_sorted` loop of fit_period from position k;
\* acc = [fail, max_jitter, max_error], fail records the `return None`
RECURSIVE FitPass(_, _, _, _, _, _, _)
FitPass(arrs, k, t_0, p, j_bound, n_tries, acc) ==
    IF k > Len(arrs) \/ acc.fail THEN acc
    ELSE LET t == t_0 + (arrs[k].idx - arrs[1].idx) * p
             jitter == arrs[k].instant - t
         IN FitPass(arrs, k + 1, t_0, p, j_bound, n_tries,
                    IF Abs(jitter) > j_bound \/ (n_tries > 1 /\ jitter < 0)
                    THEN [acc EXCEPT !.fail = TRUE]
                    ELSE [fail |-> FALSE,
                          max_jitter |-> IF jitter > acc.max_jitter THEN jitter
                                         ELSE acc.max_jitter,
                          max_error |-> IF jitter < 0 THEN Max(acc.max_error, Abs(jitter))
                                        ELSE acc.max_error])

\* the `if fit_found` block of fit_period
FitFound(first_arr, first_arr_jitter, max_jitter, j_bound) ==
    IF ~(max_jitter <= j_bound) \/ ~(first_arr_jitter <= max_jitter)
       \/ first_arr - first_arr_jitter < 0
    THEN [fit |-> None, panic |-> TRUE]
    ELSE [fit |-> Some([jitter |-> max_jitter, offset |-> first_arr - first_arr_jitter]),
          panic |-> FALSE]

\* the second try of fit_period, with first_arr_jitter = max_error
FitRetry(sorted, p, j_bound, first_arr_jitter) ==
    The({IF pass2.fail THEN [fit |-> None, panic |-> FALSE]
         ELSE FitFound(sorted[1].instant, first_arr_jitter, pass2.max_jitter, j_bound)
         : pass2 \in {FitPass(sorted, 1, sorted[1].instant - first_arr_jitter, p,
                              j_bound, 2, [fail |-> FALSE, max_jitter |-> 0, max_error |-> 0])}})

\* fit_period ; panic = arrivals_sorted[0] out of bounds, a failed assert!
\* or "Offset underflow."
fit_period(arrivals_, p, j_bound) ==
    IF arrivals_ = <<>> THEN [fit |-> None, panic |-> TRUE]
    ELSE The({The({IF pass1.fail THEN [fit |-> None, panic |-> FALSE]
                   ELSE IF pass1.max_error > 0
                   THEN FitRetry(sorted, p, j_bound, pass1.max_error)
                   ELSE FitFound(sorted[1].instant, 0, pass1.max_jitter, j_bound)
                   : pass1 \in {FitPass(sorted, 1, sorted[1].instant, p, j_bound, 1,
                                        [fail |-> FALSE, max_jitter |-> 0, max_error |-> 0])}})
              : sorted \in {SortByIdx(arrivals_)}})

\* match_pjitter_offset ; panic = assert!(period_range.contains(period))
\* failed, or fit_period panicked
match_pjitter_offset(arr_seq, jitter_bound) ==
    IF arr_seq.t_interval.is_empty \/ arr_seq.last_arrival = None
    THEN [model |-> None, panic |-> FALSE]
    ELSE The({IF ~PeriodRangeContains(arr_seq.t_interval, period)
              THEN [model |-> None, panic |-> TRUE]
              ELSE The({[model |-> IF IsSome(f.fit)
                                   THEN Some(periodic_jitter_offset(arr_seq.wcet, period,
                                                 Unwrap(f.fit).jitter, Unwrap(f.fit).offset))
                                   ELSE None,
                         panic |-> f.panic]
                        : f \in {fit_period(arr_seq.arrivals, period, jitter_bound)}})
              : period \in {pick_period_heuristic(arr_seq.t_interval)}})

\* disambiguate_model
disambiguate_model(models) ==
    IF IsSome(models.pjitter_offset) THEN models.pjitter_offset
    ELSE IF IsSome(models.pjitter) THEN models.pjitter
    ELSE IF IsSome(models.sporadic) THEN models.sporadic
    ELSE None

\* ScalarMM::extract_model
ScalarExtractModel(mm, pid) ==
    IF pid \notin DOMAIN mm.arrival_buffers THEN [model |-> None, panic |-> FALSE]
    ELSE The({[model |-> disambiguate_model(
                   [sporadic |-> match_sporadic(mm.arrival_buffers[pid]),
                    pjitter_offset |-> pjo.model,
                    pjitter |-> IF IsSome(pjo.model) THEN pjo_to_pj(Unwrap(pjo.model))
                                ELSE None]),
               panic |-> pjo.panic]
              : pjo \in {match_pjitter_offset(mm.arrival_buffers[pid], mm.jitter_bound)}})

(***************************************************************************)
(* lib.rs : IncrementalTaskModelExtractor, IncrementalSystemModelExtractor *)
(***************************************************************************)
ModelExtractionParameters(j_max, rbf_window_size) ==
    [j_max |-> j_max, rbf_window_size |-> rbf_window_size]

TaskBufSize == 1000

\* IncrementalTaskModelExtractor::new
TaskExtractorNew(params, pid) ==
    [pid |-> pid,
     mm |-> ScalarMMNew(params.j_max, TaskBufSize),
     acycle |-> InvocationCycleNew(pid, "Suspension", 0),
     current_rbf |-> RbfCurveNew(pid, params.rbf_window_size),
     arrival_cnt |-> 0]

\* the body of `if let Some(arrival) = ...` in push_event: the curve, then
\* the model matcher, then the counter
TaskOnArrival(t, arrival) ==
    The({IF c.panic THEN [x |-> t, changed |-> FALSE, panic |-> TRUE]
         ELSE The({[x |-> [t EXCEPT !.current_rbf = c.rbf, !.mm = m.mm,
                                    !.arrival_cnt = @ + 1],
                    changed |-> t.arrival_cnt + 1 >= 2,
                    panic |-> m.panic]
                   : m \in {update_internal_state(t.mm, t.pid, arrival)}})
         : c \in {add_arrival(t.current_rbf, arrival.instant, arrival.cost)}})

\* IncrementalTaskModelExtractor::push_event
TaskPushEvent(t0, event) ==
    The({IF a.panic THEN [x |-> t0, changed |-> FALSE, panic |-> TRUE]
         ELSE IF IsSome(a.arrival)
         THEN TaskOnArrival([t0 EXCEPT !.acycle = a.ic], Unwrap(a.arrival))
         ELSE [x |-> [t0 EXCEPT !.acycle = a.ic], changed |-> FALSE, panic |-> FALSE]
         : a \in {update_activation_cycle(t0.acycle, event)}})

\* IncrementalTaskModelExtractor::extract_scalar_model
extract_scalar_model(t) == ScalarExtractModel(t.mm, t.pid)

\* IncrementalTaskModelExtractor::extract_rbf
extract_rbf(t) == t.current_rbf

\* IncrementalSystemModelExtractor::new
SystemExtractorNew(params) == [extraction_params |-> params, extractors |-> EmptyMap]

\* variant of the key that shares one extractor between all the tasks
ExtractorKey_Shared(event) == 0

\* the key of `self.extractors.entry(event.pid)`
ExtractorKey(event) == event.pid

\* IncrementalSystemModelExtractor::push_event
SystemPushEvent(sys, event) ==
    The({[x |-> [sys EXCEPT !.extractors = MapPut(@, ExtractorKey(event), r.x)],
          changed |-> r.changed,
          panic |-> r.panic]
         : r \in {TaskPushEvent(
                      IF ExtractorKey(event) \in DOMAIN sys.extractors
                      THEN sys.extractors[ExtractorKey(event)]
                      ELSE TaskExtractorNew(sys.extraction_params, event.pid),
                      event)}})

\* SystemModel::new, set_rbf and set_scalar_model
SystemModel(scalar_models, rbfs) == [scalar_models |-> scalar_models, rbfs |-> rbfs]

\* SystemModel::pids
pids(m) == DOMAIN m.scalar_models

\* IncrementalSystemModelExtractor::extract_model ; the order in which the
\* HashMap is walked does not matter, every key is set once
SystemExtractModel(sys) ==
    The({[model |-> SystemModel(
                        [p \in {q \in DOMAIN per : IsSome(per[q].model)}
                             |-> Unwrap(per[p].model)],
                        [p \in DOMAIN sys.extractors |-> extract_rbf(sys.extractors[p])]),
          panic |-> \E p \in DOMAIN per : per[p].panic]
         : per \in {[p \in DOMAIN sys.extractors
                         |-> extract_scalar_model(sys.extractors[p])]}})

(***************************************************************************)
(* trace.rs : Trace                                                        *)
(***************************************************************************)
\* Trace::new
TraceNew == [events |-> <<>>]

\* impl From<T> for Trace : the events are taken as they are
TraceFrom(events) == [events |-> events]

\* variant of Trace::push that also rejects an event at the instant of the
\* last one
TracePush_Strict(tr, e) ==
    IF tr.events # <<>> /\ tr.events[Len(tr.events)].instant >= e.instant
    THEN [trace |-> tr,
          result |-> [tag |-> "Monotonocity", pos |-> Len(tr.events),
                      prev |-> tr.events[Len(tr.events)], event |-> e]]
    ELSE [trace |-> [tr EXCEPT !.events = Append(@, e)],
          result |-> [tag |-> "Ok", pos |-> 0, prev |-> e, event |-> e]]

\* Trace::push ; result is Ok(()) (pos, prev and event are then padding) or
\* Err(TraceError::Monotonocity{pos, prev, event})
TracePush(tr, e) ==
    IF tr.events # <<>> /\ tr.events[Len(tr.events)].instant > e.instant
    THEN [trace |-> tr,
          result |-> [tag |-> "Monotonocity", pos |-> Len(tr.events),
                      prev |-> tr.events[Len(tr.events)], event |-> e]]
    ELSE [trace |-> [tr EXCEPT !.events = Append(@, e)],
          result |-> [tag |-> "Ok", pos |-> 0, prev |-> e, event |-> e]]

(***************************************************************************)
(* Drivers.  Each specification feeds one object; `mode` names it.  The    *)
(* objects of the other drivers stay in their idle (freshly constructed)   *)
(* state.                                                                  *)
(***************************************************************************)
\* the objects not driven by driver g are idle
Idle(g) ==
    /\ IF g = "rbfx" THEN TRUE
       ELSE rbfx = RBFExtractorNew(1) /\ emitted = None /\ latestActivation = None
    /\ IF g = "curve" THEN TRUE ELSE crv = RbfCurveNew(0, 1) /\ arrivals = <<>>
    /\ IF g = "periodic" THEN TRUE ELSE pex = PeriodicNew(1, 1)
    /\ IF g = "composite" THEN TRUE
       ELSE cx = CompositeNew(1, 1, 0, 1, 1, FALSE, FALSE, FALSE) /\ cmodel = None
    /\ IF g = "system" THEN TRUE
       ELSE /\ sysx = SystemExtractorNew(ModelExtractionParameters(1, 1))
            /\ solo = EmptyMap /\ smodel = None
    /\ IF g = "sum" THEN TRUE
       ELSE /\ ca = RbfCurveNew(0, 1) /\ cb = RbfCurveNew(0, 1)
            /\ sumAB = None /\ sumBA = None
    /\ IF g = "interval" THEN TRUE ELSE iv = <<Empty, Empty, Empty>> /\ ires = None
    /\ IF g = "time" THEN TRUE
       ELSE tval = <<0, 1>> /\ tres = [truncate |-> None, round |-> None]
    /\ IF g = "trace" THEN TRUE ELSE trc = TraceNew /\ pushResult = None
    /\ IF g = "cycle" THEN TRUE
       ELSE icx = InvocationCycleNew(0, "Suspension", 0) /\ icArrival = None
    /\ IF g = "sparse" THEN TRUE ELSE smap = SparseMapNew(1)
    /\ IF g = "pick" THEN TRUE ELSE prange = PeriodRangeDefault /\ ppick = None
    /\ IF g = "fixed" THEN TRUE
       ELSE ftx = PeriodicNew(1, 1) /\ fplan = [offset |-> 0, exec |-> 1]
    /\ IF g = "subset" THEN TRUE
       ELSE /\ subx = ArrivalSequenceSubsetNew(0, 1, 1) /\ subRes = None
            /\ subHist = <<>> /\ subEmptied = FALSE
    /\ IF g = "job" THEN TRUE
       ELSE /\ jx = JobExtractorNew /\ jobOut = None /\ preemptedSum = 0
            /\ jobsOfActivation = 0 /\ exitSeen = FALSE
    /\ IF g = "periodic" THEN TRUE ELSE maxJobTime = 0 /\ emptyBefore = FALSE
    /\ IF g = "wellformed" THEN TRUE
       ELSE /\ wfx = InvocationCycleNew(0, "Suspension", 0) /\ wfArrival = None
            /\ wfCycle = None /\ wfExpected = None
    /\ IF g = "resolution" THEN TRUE ELSE rgap = 0 /\ rres = None
    /\ IF g = "suspensions" THEN TRUE
       ELSE ssx = SpectralNew(0, 1) /\ ssPeriod = 0 /\ ssRes = None
    /\ IF g = "incremental" THEN TRUE
       ELSE inc = <<>> /\ oneshot = <<>> /\ outcome = None

\* ... and are left alone by its steps
Frame(g) ==
    /\ UNCHANGED mode
    /\ IF g = "rbfx" THEN TRUE ELSE UNCHANGED <<rbfx, emitted, latestActivation>>
    /\ IF g = "curve" THEN TRUE ELSE UNCHANGED <<crv, arrivals>>
    /\ IF g = "periodic" THEN TRUE ELSE UNCHANGED pex
    /\ IF g = "composite" THEN TRUE ELSE UNCHANGED <<cx, cmodel>>
    /\ IF g = "system" THEN TRUE ELSE UNCHANGED <<sysx, solo, smodel>>
    /\ IF g = "sum" THEN TRUE ELSE UNCHANGED <<ca, cb, sumAB, sumBA>>
    /\ IF g = "interval" THEN TRUE ELSE UNCHANGED <<iv, ires>>
    /\ IF g = "time" THEN TRUE ELSE UNCHANGED <<tval, tres>>
    /\ IF g = "trace" THEN TRUE ELSE UNCHANGED <<trc, pushResult>>
    /\ IF g = "cycle" THEN TRUE ELSE UNCHANGED <<icx, icArrival>>
    /\ IF g = "sparse" THEN TRUE ELSE UNCHANGED smap
    /\ IF g = "pick" THEN TRUE ELSE UNCHANGED <<prange, ppick>>
    /\ IF g = "fixed" THEN TRUE ELSE UNCHANGED <<ftx, fplan>>
    /\ IF g = "subset" THEN TRUE ELSE UNCHANGED <<subx, subRes, subHist, subEmptied>>
    /\ IF g = "job" THEN TRUE
       ELSE UNCHANGED <<jx, jobOut, preemptedSum, jobsOfActivation, exitSeen>>
    /\ IF g = "periodic" THEN TRUE ELSE UNCHANGED <<maxJobTime, emptyBefore>>
    /\ IF g = "wellformed" THEN TRUE
       ELSE UNCHANGED <<wfx, wfArrival, wfCycle, wfExpected>>
    /\ IF g = "resolution" THEN TRUE ELSE UNCHANGED <<rgap, rres>>
    /\ IF g = "suspensions" THEN TRUE ELSE UNCHANGED <<ssx, ssPeriod, ssRes>>
    /\ IF g = "incremental" THEN TRUE ELSE UNCHANGED <<inc, oneshot, outcome>>

(***************************************************************************)
(* Driver "rbfx": one task's event stream fed to an RBFExtractor           *)
(***************************************************************************)
InitRbf ==
    /\ mode = "rbfx"
    /\ now = 0 /\ steps = 0 /\ panicked = FALSE /\ lastEvent = None
    /\ overflow_checks = FALSE
    /\ \E w \in 1..MaxWindow : rbfx = RBFExtractorNew(w)
    /\ emitted = None /\ latestActivation = None
    /\ Idle("rbfx")

RbfPushEvent(etype, d) ==
    /\ mode = "rbfx" /\ ~panicked /\ steps < MaxEvents
    /\ now + d <= MaxTime
    /\ \E r \in {RBFPushEvent(rbfx, TraceEvent(etype, 0, now + d))} :
          /\ rbfx' = r.x
          /\ emitted' = r.job
          /\ panicked' = r.panic
    /\ lastEvent' = Some(TraceEvent(etype, 0, now + d))
    /\ latestActivation' = IF etype = "Activation" THEN Some(now + d) ELSE latestActivation
    /\ now' = now + d
    /\ steps' = steps + 1
    /\ UNCHANGED overflow_checks
    /\ Frame("rbfx")

NextRbf == \E etype \in EventTypes, d \in 0..MaxStep : RbfPushEvent(etype, d)

SpecRbf == InitRbf /\ [][NextRbf]_vars

(***************************************************************************)
(* Driver "curve": arrivals fed directly to RbfCurve::add_arrival          *)
(***************************************************************************)
InitCurve ==
    /\ mode = "curve"
    /\ now = 0 /\ steps = 0 /\ panicked = FALSE /\ lastEvent = None
    /\ overflow_checks = FALSE
    /\ \E w \in 1..MaxWindow : crv = RbfCurveNew(0, w)
    /\ arrivals = <<>>
    /\ Idle("curve")

AddArrival(d, c) ==
    /\ mode = "curve" /\ ~panicked /\ steps < MaxArrivals
    /\ now + d <= MaxTime
    /\ \E r \in {add_arrival(crv, now + d, c)} :
          /\ crv' = r.rbf
          /\ panicked' = r.panic
    /\ arrivals' = Append(arrivals, <<now + d, c>>)
    /\ now' = now + d
    /\ steps' = steps + 1
    /\ UNCHANGED <<lastEvent, overflow_checks>>
    /\ Frame("curve")

NextCurve == \E d \in 0..MaxStep, c \in 0..MaxCost : AddArrival(d, c)

SpecCurve == InitCurve /\ [][NextCurve]_vars

(***************************************************************************)
(* Driver "periodic": one task's event stream fed to a                     *)
(* PeriodicTaskExtractor                                                   *)
(***************************************************************************)
\* (j_max, resolution) pairs explored, in ns
PeriodicParams == {<<10, 10>>, <<2, 1>>}

\* gaps between consecutive instants explored, in ns
PeriodicGaps == {0, 1, 14, 19}

InitPeriodic ==
    /\ mode = "periodic"
    /\ now = 0 /\ steps = 0 /\ panicked = FALSE /\ lastEvent = None
    /\ overflow_checks \in BOOLEAN
    /\ \E pr \in PeriodicParams : pex = PeriodicNew(pr[1], pr[2])
    /\ maxJobTime = 0 /\ emptyBefore = FALSE
    /\ Idle("periodic")

PeriodicPush(etype, d) ==
    /\ mode = "periodic" /\ ~panicked /\ steps < MaxPEvents
    /\ now + d <= MaxPTime
    /\ \E r \in {PeriodicPushEvent(pex, TraceEvent(etype, 0, now + d), overflow_checks)} :
          /\ pex' = r.x
          /\ panicked' = r.panic
    /\ \E jr \in {JobPushEvent(pex.job_detector, TraceEvent(etype, 0, now + d))} :
          maxJobTime' = IF IsSome(jr.job) /\ ~jr.panic
                        THEN Max(maxJobTime, Unwrap(jr.job).execution_time)
                        ELSE maxJobTime
    /\ emptyBefore' = (IsSome(pex.curr_period_range)
                         /\ HoldsNoValue(Unwrap(pex.curr_period_range)))
    /\ lastEvent' = Some(TraceEvent(etype, 0, now + d))
    /\ now' = now + d
    /\ steps' = steps + 1
    /\ UNCHANGED overflow_checks
    /\ Frame("periodic")

NextPeriodic == \E etype \in EventTypes, d \in PeriodicGaps : PeriodicPush(etype, d)

SpecPeriodic == InitPeriodic /\ [][NextPeriodic]_vars

(***************************************************************************)
(* Driver "composite": one task's event stream fed to a                    *)
(* CompositeModelExtractor, with extract_model called at any point         *)
(***************************************************************************)
\* gaps between consecutive instants explored, in ns
CompositeGaps == {100000, 200000}

\* results of the spectrum analysis explored: no period, or this period
FftSpikes == {0, 200000}

InitComposite ==
    /\ mode = "composite"
    /\ now = 0 /\ steps = 0 /\ panicked = FALSE /\ lastEvent = None
    /\ overflow_checks \in BOOLEAN
    /\ \E pe \in BOOLEAN, se \in BOOLEAN, re \in BOOLEAN :
          \* j_max and resolution 10 us, signal of 1 ms, windows of 4 and 2 entries
          cx = CompositeNew(10000, 10000, 1000000, 4, 2, pe, se, re)
    /\ cmodel = None
    /\ Idle("composite")

CompositePush(etype, d) ==
    /\ mode = "composite" /\ ~panicked /\ steps < MaxCEvents
    /\ now + d <= MaxCTime
    /\ \E r \in {CompositePushEvent(cx, TraceEvent(etype, 0, now + d), overflow_checks)} :
          /\ cx' = r.x
          /\ panicked' = r.panic
    /\ lastEvent' = Some(TraceEvent(etype, 0, now + d))
    /\ now' = now + d
    /\ steps' = steps + 1
    /\ UNCHANGED <<cmodel, overflow_checks>>
    /\ Frame("composite")

CompositeExtract(spike) ==
    /\ mode = "composite" /\ ~panicked
    /\ \E r \in {CompositeExtractModel(cx, spike)} :
          /\ cx' = r.x
          /\ cmodel' = r.model
          /\ panicked' = r.panic
    /\ UNCHANGED <<now, steps, lastEvent, overflow_checks>>
    /\ Frame("composite")

NextComposite ==
    \/ \E etype \in EventTypes, d \in CompositeGaps : CompositePush(etype, d)
    \/ \E spike \in FftSpikes : CompositeExtract(spike)

SpecComposite == InitComposite /\ [][NextComposite]_vars

(***************************************************************************)
(* Driver "system": the interleaved event streams of the tasks SysPids fed *)
(* to an IncrementalSystemModelExtractor, with extract_model called at any *)
(* point.  `solo` holds, for every task seen, an                           *)
(* IncrementalTaskModelExtractor fed that task's events and nothing else.  *)
(***************************************************************************)
SysPids == {1, 2}

\* j_max of 1 ns, RBF window of 2 arrivals
SysParams == ModelExtractionParameters(1, 2)

\* gaps between consecutive instants explored, in ns
SysGaps == {0, 1}

InitSystem ==
    /\ mode = "system"
    /\ now = 0 /\ steps = 0 /\ panicked = FALSE /\ lastEvent = None
    /\ overflow_checks = FALSE
    /\ sysx = SystemExtractorNew(SysParams)
    /\ solo = EmptyMap
    /\ smodel = None
    /\ Idle("system")

SystemPush(pid, etype, d) ==
    /\ mode = "system" /\ ~panicked /\ steps < MaxSEvents
    /\ now + d <= MaxSTime
    /\ \E r \in {SystemPushEvent(sysx, TraceEvent(etype, pid, now + d))} :
          /\ sysx' = r.x
          /\ panicked' = r.panic
    /\ \E r \in {TaskPushEvent(IF pid \in DOMAIN solo THEN solo[pid]
                               ELSE TaskExtractorNew(SysParams, pid),
                               TraceEvent(etype, pid, now + d))} :
          solo' = MapPut(solo, pid, r.x)
    /\ lastEvent' = Some(TraceEvent(etype, pid, now + d))
    /\ now' = now + d
    /\ steps' = steps + 1
    /\ UNCHANGED <<smodel, overflow_checks>>
    /\ Frame("system")

SystemExtract ==
    /\ mode = "system" /\ ~panicked
    /\ \E r \in {SystemExtractModel(sysx)} :
          /\ smodel' = Some(r.model)
          /\ panicked' = r.panic
    /\ UNCHANGED <<now, steps, lastEvent, sysx, solo, overflow_checks>>
    /\ Frame("system")

NextSystem ==
    \/ \E pid \in SysPids, etype \in EventTypes, d \in SysGaps : SystemPush(pid, etype, d)
    \/ SystemExtract

SpecSystem == InitSystem /\ [][NextSystem]_vars

(***************************************************************************)
(* Driver "sum": two curves built as the tests of rbf/mod.rs build them    *)
(* (curve.insert of breakpoints of increasing delta and non-decreasing     *)
(* cost on a fresh RbfCurve), then summed in both orders on clones.        *)
(***************************************************************************)
\* the window sizes (SparseMap capacities) explored
SumWindows == {2, 3, 4}

InitSum ==
    /\ mode = "sum"
    /\ now = 0 /\ steps = 0 /\ panicked = FALSE /\ lastEvent = None
    /\ overflow_checks = FALSE
    /\ \E wa \in SumWindows, wb \in SumWindows :
          ca = RbfCurveNew(1, wa) /\ cb = RbfCurveNew(1, wb)
    /\ sumAB = None /\ sumBA = None
    /\ Idle("sum")

\* the last breakpoint of the iteration of a curve
LastPoint(r) == SparseIter(r.curve)[Len(SparseIter(r.curve))]

\* rbf.curve.insert(p) on the first (which = 1) or second operand
SumInsert(which, delta, cost) ==
    /\ mode = "sum" /\ sumAB = None /\ sumBA = None
    /\ \E r \in {IF which = 1 THEN ca ELSE cb} :
          /\ delta > LastPoint(r).delta /\ cost >= LastPoint(r).cost
          /\ ca' = IF which = 1 THEN [r EXCEPT !.curve = SparseInsert(@, Point(delta, cost))]
                   ELSE ca
          /\ cb' = IF which = 2 THEN [r EXCEPT !.curve = SparseInsert(@, Point(delta, cost))]
                   ELSE cb
    /\ UNCHANGED <<now, steps, panicked, lastEvent, sumAB, sumBA, overflow_checks>>
    /\ Frame("sum")

\* a.sum(&b) on a clone of the first operand
SumAB ==
    /\ mode = "sum" /\ sumAB = None
    /\ sumAB' = Some(RbfSum(ca, cb))
    /\ UNCHANGED <<now, steps, panicked, lastEvent, ca, cb, sumBA, overflow_checks>>
    /\ Frame("sum")

\* b.sum(&a) on a clone of the second operand
SumBA ==
    /\ mode = "sum" /\ sumBA = None
    /\ sumBA' = Some(RbfSum(cb, ca))
    /\ UNCHANGED <<now, steps, panicked, lastEvent, ca, cb, sumAB, overflow_checks>>
    /\ Frame("sum")

NextSum ==
    \/ \E which \in {1, 2}, delta \in 1..MaxSumDelta, cost \in 0..MaxSumCost :
          SumInsert(which, delta, cost)
    \/ SumAB
    \/ SumBA

SpecSum == InitSum /\ [][NextSum]_vars

(***************************************************************************)
(* Driver "interval": three ClosedIntervals drawn from Empty,              *)
(* NotAnInterval and NotEmpty(a, b) with a, b in 0..MaxBound, intersected  *)
(* in both orders and both groupings.                                      *)
(***************************************************************************)
Intervals == {Empty, NotAnInterval} \cup {NotEmpty(a, b) : a \in 0..MaxBound, b \in 0..MaxBound}

InitInterval ==
    /\ mode = "interval"
    /\ now = 0 /\ steps = 0 /\ panicked = FALSE /\ lastEvent = None
    /\ overflow_checks = FALSE
    /\ iv \in Intervals \X Intervals \X Intervals
    /\ ires = None
    /\ Idle("interval")

Intersect ==
    /\ mode = "interval" /\ ires = None
    /\ ires' = Some([ab |-> intersection(iv[1], iv[2]),
                     ba |-> intersection(iv[2], iv[1]),
                     ab_c |-> intersection(intersection(iv[1], iv[2]), iv[3]),
                     a_bc |-> intersection(iv[1], intersection(iv[2], iv[3])),
                     aa |-> intersection(iv[1], iv[1]),
                     ae |-> intersection(iv[1], Empty)])
    /\ UNCHANGED <<now, steps, panicked, lastEvent, iv, overflow_checks>>
    /\ Frame("interval")

NextInterval == Intersect

SpecInterval == InitInterval /\ [][NextInterval]_vars

(***************************************************************************)
(* Driver "time": a Time t in 0..MaxT truncated and rounded to a           *)
(* resolution in 1..MaxResolution                                          *)
(***************************************************************************)
InitTime ==
    /\ mode = "time"
    /\ now = 0 /\ steps = 0 /\ panicked = FALSE /\ lastEvent = None
    /\ overflow_checks = FALSE
    /\ tval \in (0..MaxT) \X (1..MaxResolution)
    /\ tres = [truncate |-> None, round |-> None]
    /\ Idle("time")

TimeTruncate ==
    /\ mode = "time" /\ tres.truncate = None
    /\ tres' = [tres EXCEPT !.truncate = Some(Truncate(tval[1], tval[2]))]
    /\ UNCHANGED <<now, steps, panicked, lastEvent, tval, overflow_checks>>
    /\ Frame("time")

TimeRound ==
    /\ mode = "time" /\ tres.round = None
    /\ tres' = [tres EXCEPT !.round = Some(Round(tval[1], tval[2]))]
    /\ UNCHANGED <<now, steps, panicked, lastEvent, tval, overflow_checks>>
    /\ Frame("time")

NextTime == TimeTruncate \/ TimeRound

SpecTime == InitTime /\ [][NextTime]_vars

(***************************************************************************)
(* Driver "trace": a Trace built by Trace::new or from a slice of events,  *)
(* then fed events of one task through Trace::push                         *)
(***************************************************************************)
\* the events explored
TraceEvents == {TraceEvent(etype, 0, t) : etype \in EventTypes, t \in 0..MaxTraceTime}

InitTrace ==
    /\ mode = "trace"
    /\ now = 0 /\ steps = 0 /\ panicked = FALSE /\ lastEvent = None
    /\ overflow_checks = FALSE
    /\ \/ trc = TraceNew
       \/ \E e1 \in TraceEvents, e2 \in TraceEvents : trc = TraceFrom(<<e1, e2>>)
    /\ pushResult = None
    /\ Idle("trace")

PushToTrace(e) ==
    /\ mode = "trace" /\ Len(trc.events) < MaxTraceLen
    /\ \E r \in {TracePush(trc, e)} :
          /\ trc' = r.trace
          /\ pushResult' = Some(r.result)
    /\ lastEvent' = Some(e)
    /\ UNCHANGED <<now, steps, panicked, overflow_checks>>
    /\ Frame("trace")

NextTrace == \E e \in TraceEvents : PushToTrace(e)

SpecTrace == InitTrace /\ [][NextTrace]_vars

(***************************************************************************)
(* Driver "cycle": one task's events, with non-decreasing instants and any *)
(* order of kinds, fed to an InvocationCycle of either heuristic           *)
(***************************************************************************)
InitCycle ==
    /\ mode = "cycle"
    /\ now = 0 /\ steps = 0 /\ panicked = FALSE /\ lastEvent = None
    /\ overflow_checks = FALSE
    /\ \E h \in {"Suspension", "SuspensionTimeout"}, timeout \in 0..MaxTimeout :
          icx = InvocationCycleNew(0, h, timeout)
    /\ icArrival = None
    /\ Idle("cycle")

CyclePush(etype, d) ==
    /\ mode = "cycle" /\ ~panicked /\ steps < MaxCycleEvents
    /\ now + d <= MaxCycleTime
    /\ \E r \in {update_activation_cycle(icx, TraceEvent(etype, 0, now + d))} :
          /\ icx' = r.ic
          /\ icArrival' = r.arrival
          /\ panicked' = r.panic
    /\ lastEvent' = Some(TraceEvent(etype, 0, now + d))
    /\ now' = now + d
    /\ steps' = steps + 1
    /\ UNCHANGED overflow_checks
    /\ Frame("cycle")

NextCycle == \E etype \in EventTypes, d \in 0..1 : CyclePush(etype, d)

SpecCycle == InitCycle /\ [][NextCycle]_vars

(***************************************************************************)
(* Driver "sparse": add and insert applied to a SparseMap of any capacity  *)
(***************************************************************************)
InitSparse ==
    /\ mode = "sparse"
    /\ now = 0 /\ steps = 0 /\ panicked = FALSE /\ lastEvent = None
    /\ overflow_checks = FALSE
    /\ \E capacity \in 1..MaxMapCapacity : smap = SparseMapNew(capacity)
    /\ Idle("sparse")

SparseMapAdd(delta, cost) ==
    /\ mode = "sparse" /\ steps < MaxMapOps
    /\ smap' = SparseAdd(smap, Point(delta, cost))
    /\ steps' = steps + 1
    /\ UNCHANGED <<now, panicked, lastEvent, overflow_checks>>
    /\ Frame("sparse")

SparseMapInsert(delta, cost) ==
    /\ mode = "sparse" /\ steps < MaxMapOps
    /\ smap' = SparseInsert(smap, Point(delta, cost))
    /\ steps' = steps + 1
    /\ UNCHANGED <<now, panicked, lastEvent, overflow_checks>>
    /\ Frame("sparse")

NextSparse ==
    \E delta \in 0..MaxMapDelta, cost \in 0..MaxMapCost :
        SparseMapAdd(delta, cost) \/ SparseMapInsert(delta, cost)

SpecSparse == InitSparse /\ [][NextSparse]_vars

(***************************************************************************)
(* Driver "pick": pick_period_heuristic applied to a PeriodRange           *)
(***************************************************************************)
\* range bounds explored, in ns: the quarters of the snap unit and the
\* values right after them
PickTimes == {k * (SnapNs \div 4) + b : k \in 0..MaxPickQuarters, b \in {0, 1}}

InitPick ==
    /\ mode = "pick"
    /\ now = 0 /\ steps = 0 /\ panicked = FALSE /\ lastEvent = None
    /\ overflow_checks = FALSE
    /\ \/ prange = PeriodRangeDefault
       \/ \E t_min \in PickTimes, t_max \in PickTimes : prange = PeriodRangeNew(t_min, t_max)
    /\ ppick = None
    /\ Idle("pick")

PickPeriod ==
    /\ mode = "pick" /\ ppick = None
    /\ ppick' = Some(pick_period_heuristic(prange))
    /\ UNCHANGED <<now, steps, panicked, lastEvent, overflow_checks, prange>>
    /\ Frame("pick")

NextPick == PickPeriod

SpecPick == InitPick /\ [][NextPick]_vars

(***************************************************************************)
(* Driver "fixed": the trace of test::periodic_fixed_exec_time, with any   *)
(* first activation and execution time: jobs 10 ms apart, each an          *)
(* Activation and a Dispatch at the same instant and a Deactivation one    *)
(* execution time later, fed to PeriodicTaskExtractor::new(1 ms, 1 ms)     *)
(***************************************************************************)
\* the k-th event (from 0) of the trace
FixedEvent(plan, k) ==
    LET start == (plan.offset + 10 * (k \div 3)) * Ms
    IN IF k % 3 = 0 THEN TraceEvent("Activation", 0, start)
       ELSE IF k % 3 = 1 THEN TraceEvent("Dispatch", 0, start)
       ELSE TraceEvent("Deactivation", 0, start + plan.exec * Ms)

InitFixed ==
    /\ mode = "fixed"
    /\ now = 0 /\ steps = 0 /\ panicked = FALSE /\ lastEvent = None
    /\ overflow_checks = FALSE
    /\ ftx = PeriodicNew(Ms, Ms)
    /\ \E o \in 0..MaxFixedOffset, e \in 1..MaxFixedExec : fplan = [offset |-> o, exec |-> e]
    /\ Idle("fixed")

FixedPush ==
    /\ mode = "fixed" /\ ~panicked /\ steps < 3 * MaxFixedJobs
    /\ \E r \in {PeriodicPushEvent(ftx, FixedEvent(fplan, steps), overflow_checks)} :
          /\ ftx' = r.x
          /\ panicked' = r.panic
    /\ lastEvent' = Some(FixedEvent(fplan, steps))
    /\ now' = FixedEvent(fplan, steps).instant
    /\ steps' = steps + 1
    /\ UNCHANGED <<overflow_checks, fplan>>
    /\ Frame("fixed")

NextFixed == FixedPush

SpecFixed == InitFixed /\ [][NextFixed]_vars

(***************************************************************************)
(* Driver "subset": arrivals with increasing instants, none before the     *)
(* jitter bound, handed to ArrivalSequenceSubset::add_arrival              *)
(***************************************************************************)
\* gaps between consecutive arrivals and arrival costs explored, in ns
SubsetGaps == {1, 2, 5}
SubsetCosts == {1, 2}

InitSubset ==
    /\ mode = "subset"
    /\ steps = 0 /\ panicked = FALSE /\ lastEvent = None
    /\ overflow_checks = FALSE
    /\ \E jitter_bound \in 1..MaxJitterBound, buf_size \in {2, DefaultBufSize} :
          /\ subx = ArrivalSequenceSubsetNew(0, buf_size, jitter_bound)
          /\ now = jitter_bound
    /\ subRes = None /\ subHist = <<>> /\ subEmptied = FALSE
    /\ Idle("subset")

SubsetAdd(gap, cost) ==
    /\ mode = "subset" /\ ~panicked /\ steps < MaxSubsetArrivals
    /\ \E r \in {SubsetAddArrival(subx, Arrival(now + gap, cost, 0, 0))} :
          /\ subx' = r.s
          /\ subRes' = r.range
          /\ panicked' = r.panic
          /\ subEmptied' = (subEmptied \/ (~r.panic /\ r.range = None))
    /\ subHist' = Append(subHist, <<now + gap, cost>>)
    /\ now' = now + gap
    /\ steps' = steps + 1
    /\ UNCHANGED <<lastEvent, overflow_checks>>
    /\ Frame("subset")

NextSubset == \E gap \in SubsetGaps, cost \in SubsetCosts : SubsetAdd(gap, cost)

SpecSubset == InitSubset /\ [][NextSubset]_vars

(***************************************************************************)
(* Driver "job": one task's event stream fed to a JobExtractor             *)
(***************************************************************************)
\* gaps between consecutive events explored
JobGaps == {0, 1, 2}

InitJob ==
    /\ mode = "job"
    /\ now = 0 /\ steps = 0 /\ panicked = FALSE /\ lastEvent = None
    /\ overflow_checks = FALSE
    /\ jx = JobExtractorNew
    /\ jobOut = None /\ preemptedSum = 0 /\ jobsOfActivation = 0 /\ exitSeen = FALSE
    /\ Idle("job")

JobPush(etype, d) ==
    /\ mode = "job" /\ ~panicked /\ steps < MaxJobEvents
    /\ now + d <= MaxJobTime
    /\ \E r \in {JobPushEvent(jx, TraceEvent(etype, 0, now + d))} :
          /\ jx' = r.je
          /\ jobOut' = r.job
          /\ panicked' = r.panic
          /\ jobsOfActivation' =
                IF etype = "Activation" THEN 0
                ELSE IF IsSome(r.job) /\ jobsOfActivation < 2 THEN jobsOfActivation + 1
                ELSE jobsOfActivation
    /\ preemptedSum' =
          IF etype = "Activation" THEN 0
          ELSE IF etype = "Dispatch" /\ IsSome(lastEvent)
                  /\ Unwrap(lastEvent).etype = "Preemption"
          THEN preemptedSum + d
          ELSE preemptedSum
    /\ exitSeen' = IF etype = "Activation" THEN FALSE
                   ELSE IF etype = "Exit" THEN TRUE ELSE exitSeen
    /\ lastEvent' = Some(TraceEvent(etype, 0, now + d))
    /\ now' = now + d
    /\ steps' = steps + 1
    /\ UNCHANGED overflow_checks
    /\ Frame("job")

NextJob == \E etype \in EventTypes, d \in JobGaps : JobPush(etype, d)

SpecJob == InitJob /\ [][NextJob]_vars

(***************************************************************************)
(* Driver "wellformed": one task's well-formed invocation cycles fed to an *)
(* InvocationCycle of either heuristic.  The kinds follow the scheduling   *)
(* order; the instants strictly increase, except that a Dispatch may share *)
(* the instant of the Activation before it.                                *)
(***************************************************************************)
\* gaps between consecutive events explored
WfGaps == {0, 1, 2}

\* the kinds that may follow the last event in a well-formed stream
WfSuccessors(heuristic, last) ==
    IF last = None THEN {"Activation"}
    ELSE IF Unwrap(last).etype = "Activation" THEN {"Dispatch"}
    ELSE IF Unwrap(last).etype = "Dispatch" THEN {"Preemption", "Deactivation", "Exit"}
    ELSE IF Unwrap(last).etype = "Preemption" THEN {"Dispatch"}
    ELSE IF Unwrap(last).etype = "Deactivation"
         THEN IF heuristic = "SuspensionTimeout" THEN {"Activation", "Exit"} ELSE {"Activation"}
    ELSE {"Activation"}

\* the cycle an Activation at `instant` opens
WfOpened(instant) == [activation |-> instant, cost |-> 0, ss_time |-> 0, ss_cnt |-> 0]

\* the open cycle with its running time brought up to the event at `instant`:
\* the task runs from each Dispatch to the next event
WfRun(cycle, last, instant) ==
    IF Unwrap(last).etype = "Dispatch"
    THEN [cycle EXCEPT !.cost = @ + (instant - Unwrap(last).instant)]
    ELSE cycle

\* the open cycle and the Arrival that ends it (if any) after an event of
\* kind etype at `instant`, by the definition of the two heuristics
WfStep(heuristic, timeout, cycle, last, etype, instant) ==
    LET run == WfRun(Unwrap(cycle), last, instant)
        ended == Some(Arrival(run.activation, run.cost, run.ss_time, run.ss_cnt))
        gap == instant - Unwrap(last).instant
    IN IF cycle = None \/ last = None
       THEN [cycle |-> Some(WfOpened(instant)), arrival |-> None]
       ELSE IF etype = "Exit" THEN [cycle |-> None, arrival |-> ended]
       ELSE IF etype = "Deactivation" /\ heuristic = "Suspension"
       THEN [cycle |-> None, arrival |-> ended]
       ELSE IF etype = "Activation"
       THEN IF gap > timeout
            THEN [cycle |-> Some(WfOpened(instant)), arrival |-> ended]
            ELSE [cycle |-> Some([run EXCEPT !.ss_time = @ + gap, !.ss_cnt = @ + 1]),
                  arrival |-> None]
       ELSE [cycle |-> Some(run), arrival |-> None]

InitWellFormed ==
    /\ mode = "wellformed"
    /\ now = 0 /\ steps = 0 /\ panicked = FALSE /\ lastEvent = None
    /\ overflow_checks = FALSE
    /\ \E h \in {"Suspension", "SuspensionTimeout"}, timeout \in 0..MaxTimeout :
          wfx = InvocationCycleNew(0, h, timeout)
    /\ wfArrival = None /\ wfCycle = None /\ wfExpected = None
    /\ Idle("wellformed")

WellFormedPush(etype, d) ==
    /\ mode = "wellformed" /\ ~panicked /\ steps < MaxWfEvents
    /\ now + d <= MaxWfTime
    /\ etype \in WfSuccessors(wfx.heuristic, lastEvent)
    /\ d = 0 => (etype = "Dispatch" /\ lastEvent # None /\ Unwrap(lastEvent).etype = "Activation")
    /\ \E r \in {update_activation_cycle(wfx, TraceEvent(etype, 0, now + d))} :
          /\ wfx' = r.ic
          /\ wfArrival' = r.arrival
          /\ panicked' = r.panic
    /\ \E w \in {WfStep(wfx.heuristic, wfx.timeout, wfCycle, lastEvent, etype, now + d)} :
          /\ wfCycle' = w.cycle
          /\ wfExpected' = w.arrival
    /\ lastEvent' = Some(TraceEvent(etype, 0, now + d))
    /\ now' = now + d
    /\ steps' = steps + 1
    /\ UNCHANGED overflow_checks
    /\ Frame("wellformed")

NextWellFormed == \E etype \in EventTypes, d \in WfGaps : WellFormedPush(etype, d)

SpecWellFormed == InitWellFormed /\ [][NextWellFormed]_vars

(***************************************************************************)
(* Driver "resolution": the preamble of fft() applied to a minimum gap     *)
(***************************************************************************)
\* minimum gaps explored, in ns: the multiples of the powers of ten and
\* their neighbours
ResolutionGaps ==
    {m * Pow10(e) + b : m \in 1..9, e \in 0..MaxGapMagnitude, b \in {-1, 0, 1}}

InitResolution ==
    /\ mode = "resolution"
    /\ now = 0 /\ steps = 0 /\ panicked = FALSE /\ lastEvent = None
    /\ overflow_checks = FALSE
    /\ rgap \in ResolutionGaps
    /\ rres = None
    /\ Idle("resolution")

PickResolution ==
    /\ mode = "resolution" /\ rres = None
    /\ \E mag0 \in Log10Floors(rgap) : rres' = Some(FftResolutionAt(rgap, mag0))
    /\ UNCHANGED <<rgap, now, steps, panicked, lastEvent, overflow_checks>>
    /\ Frame("resolution")

NextResolution == PickResolution

SpecResolution == InitResolution /\ [][NextResolution]_vars

(***************************************************************************)
(* Driver "suspensions": Activation and Deactivation events at strictly    *)
(* increasing instants build the job history of a SpectralExtractor, then  *)
(* detect_suspensions runs on it with a period                             *)
(***************************************************************************)
SuspensionWindow == 4
SuspensionGaps == {1, 3}
SuspensionPeriods == {2, 3}

InitSuspensions ==
    /\ mode = "suspensions"
    /\ now = 0 /\ steps = 0 /\ panicked = FALSE /\ lastEvent = None
    /\ overflow_checks = FALSE
    /\ ssx = SpectralNew(0, SuspensionWindow)
    /\ ssPeriod \in SuspensionPeriods
    /\ ssRes = None
    /\ Idle("suspensions")

SuspensionsPush(etype, d) ==
    /\ mode = "suspensions" /\ ~panicked /\ ssRes = None
    /\ steps < MaxSuspensionEvents
    /\ d \in SuspensionGaps \/ lastEvent = None
    /\ \E r \in {SpectralPushEvent(ssx, TraceEvent(etype, 0, now + d))} :
          /\ ssx' = r.x
          /\ panicked' = r.panic
    /\ lastEvent' = Some(TraceEvent(etype, 0, now + d))
    /\ now' = now + d
    /\ steps' = steps + 1
    /\ UNCHANGED <<ssPeriod, ssRes, overflow_checks>>
    /\ Frame("suspensions")

\* extract() calls detect_suspensions once the history holds two jobs
SuspensionsDetect ==
    /\ mode = "suspensions" /\ ~panicked /\ ssRes = None
    /\ Len(ssx.job_history) > 1
    /\ \E r \in {detect_suspensions(ssx, ssPeriod)} :
          /\ ssRes' = Some(r)
          /\ panicked' = r.panic
    /\ UNCHANGED <<ssx, ssPeriod, now, steps, lastEvent, overflow_checks>>
    /\ Frame("suspensions")

NextSuspensions ==
    \/ \E etype \in {"Activation", "Deactivation"}, d \in SuspensionGaps \cup {0} :
          SuspensionsPush(etype, d)
    \/ SuspensionsDetect

SpecSuspensions == InitSuspensions /\ [][NextSuspensions]_vars

(***************************************************************************)
(* SystemModelExtractor<CompositeModelExtractor>: a mapping from task id   *)
(* to composite extractor.  An event is routed to the extractor of its     *)
(* task, created on first use; extract_model snapshots every task's        *)
(* current composite model; extract_from_trace constructs, feeds every     *)
(* event in order and snapshots once.                                      *)
(***************************************************************************)
MultiplexerNew(params) == [extraction_params |-> params, extractors |-> EmptyMap]

MultiplexerPushEvent(sys, event, checks) ==
    LET p == sys.extraction_params
        x0 == IF event.pid \in DOMAIN sys.extractors THEN sys.extractors[event.pid]
              ELSE CompositeNew(p.j_max, p.resolution, p.max_signal_len, p.window_size,
                                p.window_size, p.periodic_enabled, p.spectral_enabled,
                                p.rbf_enabled)
    IN The({[x |-> [sys EXCEPT !.extractors = MapPut(@, event.pid, r.x)],
             changed |-> r.changed, panic |-> r.panic]
            : r \in {CompositePushEvent(x0, event, checks)}})

\* the snapshot of the tasks `pids` still to visit
RECURSIVE MultiplexerSnapshot(_, _, _, _)
MultiplexerSnapshot(sys, model, rest, spike) ==
    IF rest = {} THEN [x |-> sys, model |-> model, panic |-> FALSE]
    ELSE The({The({IF r.panic THEN [x |-> sys, model |-> model, panic |-> TRUE]
                   ELSE MultiplexerSnapshot([sys EXCEPT !.extractors[pid] = r.x],
                                            MapPut(model, pid, Unwrap(r.model)),
                                            rest \ {pid}, spike)
                   : r \in {CompositeExtractModel(sys.extractors[pid], spike)}})
              : pid \in {CHOOSE q \in rest : \A o \in rest : q <= o}})

MultiplexerExtractModel(sys, spike) ==
    MultiplexerSnapshot(sys, EmptyMap, DOMAIN sys.extractors, spike)

(***************************************************************************)
(* Driver "incremental": the event loop of match-model's _main in          *)
(* incremental mode, next to a one-shot extractor fed the same events      *)
(***************************************************************************)
IncPids == {1, 2}

\* gaps between consecutive instants explored, in ns
IncGaps == {100000, 200000}

\* --interval (in seconds) and --arrival as given on the command line
IncUpdates ==
    {[update_interval |-> None, update_arrival |-> Some(1)],
     [update_interval |-> None, update_arrival |-> Some(2)],
     [update_interval |-> Some(0), update_arrival |-> None],
     [update_interval |-> Some(1), update_arrival |-> None]}

\* CompositeExtractionParams::from(&Opt): j_max and resolution of 10 us, a
\* signal of 1 ms, windows of 2 entries
IncParams(periodic_off, spectral_off, rbf_off) ==
    [j_max |-> 10000, resolution |-> 10000, max_signal_len |-> 1000000,
     window_size |-> 2, periodic_enabled |-> ~periodic_off,
     spectral_enabled |-> ~spectral_off, rbf_enabled |-> ~rbf_off]

\* Time::from_s(interval as f64), for whole seconds
FromSeconds(s) == s * OneSecond

InitIncremental ==
    /\ mode = "incremental"
    /\ now = 0 /\ steps = 0 /\ panicked = FALSE /\ lastEvent = None
    /\ overflow_checks = FALSE
    /\ \E args \in IncUpdates, periodic_off \in BOOLEAN, spectral_off \in BOOLEAN :
          /\ inc = [args |-> args,
                    model_extractor |-> MultiplexerNew(IncParams(periodic_off, spectral_off, FALSE)),
                    model |-> EmptyMap,
                    last_update_time |-> 0,
                    model_changed |-> FALSE,
                    arrival_cnt |-> 1,
                    update_interval |-> IF IsSome(args.update_interval)
                                        THEN FromSeconds(Unwrap(args.update_interval)) ELSE 0]
          /\ oneshot = MultiplexerNew(IncParams(periodic_off, spectral_off, FALSE))
    /\ outcome = None
    /\ Idle("incremental")

\* `if model_changed && (update_interval.is_some() && elapsed >= update_interval
\*                       || update_arrival.is_some() && arrival_cnt % n == 0)`
UpdateDue(l, instant) ==
    /\ l.model_changed
    /\ \/ IsSome(l.args.update_interval)
          /\ instant - l.last_update_time >= l.update_interval
       \/ IsSome(l.args.update_arrival)
          /\ l.arrival_cnt % Unwrap(l.args.update_arrival) = 0

\* one iteration of `for event in trace.events()`
IncrementalBody(l, event, spike) ==
    The({The({IF r.panic THEN [l |-> l1, panic |-> TRUE]
              ELSE IF UpdateDue(l1, event.instant)
              THEN The({[l |-> [l1 EXCEPT !.model_extractor = e.x,
                                          !.model = IF e.panic THEN @ ELSE e.model,
                                          !.last_update_time = event.instant,
                                          !.model_changed = FALSE],
                         panic |-> e.panic]
                        : e \in {MultiplexerExtractModel(l1.model_extractor, spike)}})
              ELSE [l |-> l1, panic |-> FALSE]
              : l1 \in {[l EXCEPT !.model_extractor = r.x,
                                  !.model_changed = r.changed,
                                  !.arrival_cnt = IF r.changed THEN @ + 1 ELSE @,
                                  !.last_update_time = IF @ = 0 THEN event.instant ELSE @]}})
         : r \in {MultiplexerPushEvent(l.model_extractor, event, FALSE)}})

IncrementalEvent(pid, etype, d, spike) ==
    /\ mode = "incremental" /\ ~panicked /\ outcome = None
    /\ steps < MaxIncEvents
    /\ \E event \in {TraceEvent(etype, pid, now + d)} :
          /\ \E r \in {IncrementalBody(inc, event, spike)} :
                /\ inc' = r.l
                /\ \E o \in {MultiplexerPushEvent(oneshot, event, FALSE)} :
                      /\ oneshot' = o.x
                      /\ panicked' = (r.panic \/ o.panic)
          /\ lastEvent' = Some(event)
    /\ now' = now + d
    /\ steps' = steps + 1
    /\ UNCHANGED <<outcome, overflow_checks>>
    /\ Frame("incremental")

\* the end of the trace: `if model_changed { model = extract_model() }` in
\* the incremental run, extract_from_trace's snapshot in the one-shot run;
\* the two extractors hold the same job histories, so the spectrum analysis
\* gives both the same spike
IncrementalEnd(spike) ==
    /\ mode = "incremental" /\ ~panicked /\ outcome = None
    /\ \E o \in {MultiplexerExtractModel(oneshot, spike)} :
       \E e \in {IF inc.model_changed
                 THEN MultiplexerExtractModel(inc.model_extractor, spike)
                 ELSE [x |-> inc.model_extractor, model |-> inc.model, panic |-> FALSE]} :
          /\ inc' = [inc EXCEPT !.model_extractor = e.x,
                                !.model = IF e.panic THEN @ ELSE e.model]
          /\ oneshot' = o.x
          /\ outcome' = Some([incremental |-> IF e.panic THEN inc.model ELSE e.model,
                              one_shot |-> o.model])
          /\ panicked' = (e.panic \/ o.panic)
    /\ UNCHANGED <<now, steps, lastEvent, overflow_checks>>
    /\ Frame("incremental")

NextIncremental ==
    \/ \E pid \in IncPids, etype \in {"Activation", "Deactivation"}, d \in IncGaps,
          spike \in FftSpikes : IncrementalEvent(pid, etype, d, spike)
    \/ \E spike \in FftSpikes : IncrementalEnd(spike)

SpecIncremental == InitIncremental /\ [][NextIncremental]_vars

(***************************************************************************)
(* C1: after any sequence of job completions fed to the RBF extractor the  *)
(* breakpoints of the stored curve, read in increasing delta, have         *)
(* non-decreasing cost, and C(0) = 0.                                      *)
(***************************************************************************)
CurveMonotone(m) ==
    \A p, q \in StoredPoints(m) : p.delta <= q.delta => p.cost <= q.cost

C1_RbfMonotone ==
    mode = "rbfx" => /\ CurveMonotone(rbfx.rbf.curve)
                     /\ SparseGet(rbfx.rbf.curve, 0) = 0

(***************************************************************************)
(* C2: for every run of consecutive arrivals i..j that were together in    *)
(* the sliding window when j was added, C(t_j - t_i + 1) >= c_i + .. + c_j *)
(***************************************************************************)
RECURSIVE SumCost(_, _, _)
SumCost(s, i, j) == IF i > j THEN 0 ELSE s[i][2] + SumCost(s, i + 1, j)

C2_UpperBound ==
    mode = "curve" =>
        \A i, j \in 1..Len(arrivals) :
            (i <= j /\ j - i <= crv.window_size) =>
                RbfGet(crv, arrivals[j][1] - arrivals[i][1] + 1) >= SumCost(arrivals, i, j)

(***************************************************************************)
(* C3: every Job emitted by JobExtractor::push_event satisfies             *)
(* execution_time + preemption_time = completed_at - arrived_at with       *)
(* execution_time >= 0 (no subtraction underflows, no assert fails), where *)
(* arrived_at is the instant of the latest Activation and completed_at the *)
(* instant of the Deactivation that emitted the Job.                       *)
(***************************************************************************)
C3_JobConservation ==
    mode = "rbfx" =>
        /\ ~panicked
        /\ IsSome(emitted) =>
             LET j == Unwrap(emitted)
             IN /\ j.execution_time >= 0
                /\ j.preemption_time >= 0
                /\ j.execution_time + j.preemption_time = j.completed_at - j.arrived_at
                /\ Unwrap(lastEvent).etype = "Deactivation"
                /\ j.completed_at = Unwrap(lastEvent).instant
                /\ IsSome(latestActivation)
                /\ j.arrived_at = Unwrap(latestActivation)

\* a Job that was preempted and also ran has been emitted
C3_Witness ==
    /\ mode = "rbfx" /\ IsSome(emitted)
    /\ Unwrap(emitted).preemption_time > 0
    /\ Unwrap(emitted).execution_time > 0

(***************************************************************************)
(* C4 (as stated): whenever the periodic extractor reports is_matching(),  *)
(* the period of its current model lies within [lower, upper] of its       *)
(* current feasible-period interval.                                       *)
(***************************************************************************)
PeriodInRange(x) ==
    LET range == Unwrap(x.curr_period_range)
        model == Unwrap(x.current_model)
    IN range.lower <= model.period /\ model.period <= range.upper

C4_PeriodInInterval ==
    (mode = "periodic" /\ PeriodicIsMatching(pex)) =>
        /\ IsSome(PeriodicExtractModel(pex))
        /\ PeriodInRange(pex)

(***************************************************************************)
(* C4 (amended): whenever is_matching() is true the extractor holds a      *)
(* model whose period lies within [lower, upper] of the feasible interval  *)
(* or is the fallback of find_period, the average gap rounded to R.        *)
(***************************************************************************)
C4_PeriodInIntervalOrFallback ==
    (mode = "periodic" /\ PeriodicIsMatching(pex)) =>
        /\ IsSome(PeriodicExtractModel(pex))
        /\ Unwrap(pex.curr_period_range).tag = "NotEmpty"
        /\ \/ PeriodInRange(pex)
           \/ Unwrap(pex.current_model).period = Round(pex.average_gap, pex.resolution)

\* a matching model whose period was snapped to a granularity coarser than
\* R and lies inside the feasible interval
C4_Witness ==
    /\ mode = "periodic" /\ PeriodicIsMatching(pex)
    /\ PeriodInRange(pex)
    /\ Unwrap(pex.current_model).period # Round(pex.average_gap, pex.resolution)

(***************************************************************************)
(* C5: whenever the periodic extractor reports is_matching(), the jitter   *)
(* of its current model is <= J_max.                                       *)
(***************************************************************************)
C5_JitterBounded ==
    (mode = "periodic" /\ PeriodicIsMatching(pex)) =>
        Unwrap(pex.current_model).jitter <= pex.j_max

(***************************************************************************)
(* C6: for every combination of enable flags and every event sequence, the *)
(* CompositeModel returned by CompositeModelExtractor::extract_model never *)
(* has both `periodic` and `periodic_ss` present.                          *)
(***************************************************************************)
C6_AtMostOnePeriodic ==
    (mode = "composite" /\ IsSome(cmodel)) =>
        ~(IsSome(Unwrap(cmodel).periodic) /\ IsSome(Unwrap(cmodel).periodic_ss))

\* all three extractors enabled, the returned model carries the periodic
\* model, and the spectral extractor holds a job history from which fft()
\* reaches the spectrum analysis
C6_Witness ==
    /\ mode = "composite" /\ IsSome(cmodel)
    /\ cx.periodic_enabled /\ cx.spectral_enabled /\ cx.rbf_enabled
    /\ IsSome(Unwrap(cmodel).periodic)
    /\ Len(cx.spectral_extractor.job_history) > 1
    /\ ~FftResolution(cx.spectral_extractor.min_gap).panic

(***************************************************************************)
(* C7: the system-level extractor keeps per-task state disjoint.  The      *)
(* extractor it holds for a task, and the scalar model and curve it        *)
(* reports for that task, are those of an extractor fed that task's events *)
(* alone, so they do not depend on how the tasks' streams are interleaved; *)
(* and pushing an event of one task leaves what is reported for every      *)
(* other task unchanged.                                                   *)
(***************************************************************************)
\* what extract_model reports for task p
TaskView(sys, p) ==
    The({[scalar |-> MapGet(r.model.scalar_models, p), rbf |-> MapGet(r.model.rbfs, p)]
         : r \in {SystemExtractModel(sys)}})

\* what an extractor fed the events of task p alone reports
SoloView(p) ==
    IF p \in DOMAIN solo
    THEN [scalar |-> extract_scalar_model(solo[p]).model,
          rbf |-> Some(extract_rbf(solo[p]))]
    ELSE [scalar |-> None, rbf |-> None]

TaskStateIsolated ==
    mode = "system" =>
        \A p \in SysPids :
            /\ MapGet(sysx.extractors, p) = MapGet(solo, p)
            /\ TaskView(sysx, p) = SoloView(p)

OtherTasksUnchanged ==
    (mode = "system" /\ steps' = steps + 1) =>
        \A p \in SysPids \ {Unwrap(lastEvent').pid} :
            TaskView(sysx, p)' = TaskView(sysx, p)

C7_TaskIsolation == []TaskStateIsolated /\ [][OtherTasksUnchanged]_vars

\* two tasks fed interleaved: task 1 has produced two arrivals and has a
\* scalar model, task 2 is in the middle of an invocation, and the last
\* event pushed belongs to task 1
C7_Witness ==
    /\ mode = "system" /\ ~panicked
    /\ DOMAIN sysx.extractors = SysPids
    /\ sysx.extractors[1].arrival_cnt >= 2
    /\ IsSome(TaskView(sysx, 1).scalar)
    /\ IsSome(sysx.extractors[2].acycle.last_event_type)
    /\ IsSome(lastEvent) /\ Unwrap(lastEvent).pid = 1

(***************************************************************************)
(* C8: after a.sum(b) on two monotone curves, every breakpoint (D, c)      *)
(* stored in the result has c = a(D) + b(D), where x(D) is the cost of the *)
(* greatest breakpoint of x at or below D (a taken before the sum).        *)
(***************************************************************************)
\* the cost of the greatest breakpoint of the stored set pts at or below delta
CostAt(pts, delta) ==
    IF \E p \in pts : p.delta <= delta
    THEN (CHOOSE p \in pts : p.delta <= delta
                             /\ \A q \in pts : q.delta <= delta => q.delta <= p.delta).cost
    ELSE 0

C8_SumPointwise ==
    (mode = "sum" /\ IsSome(sumAB) /\ CurveMonotone(ca.curve) /\ CurveMonotone(cb.curve)) =>
        \A p \in StoredPoints(Unwrap(sumAB).curve) :
            p.cost = CostAt(StoredPoints(ca.curve), p.delta)
                     + CostAt(StoredPoints(cb.curve), p.delta)

(***************************************************************************)
(* C9: curve summation is commutative: for two monotone curves A and B,    *)
(* A.sum(B) and B.sum(A) iterate to the same sequence of breakpoints.      *)
(***************************************************************************)
C9_SumCommutative ==
    (mode = "sum" /\ IsSome(sumAB) /\ IsSome(sumBA)
       /\ CurveMonotone(ca.curve) /\ CurveMonotone(cb.curve)) =>
        SparseIter(Unwrap(sumAB).curve) = SparseIter(Unwrap(sumBA).curve)

(***************************************************************************)
(* C10: ClosedInterval::intersection is commutative and associative for    *)
(* operands drawn from Empty, NotAnInterval and NotEmpty(a, b).            *)
(***************************************************************************)
C10_IntersectionCommAssoc ==
    (mode = "interval" /\ IsSome(ires)) =>
        /\ Unwrap(ires).ab = Unwrap(ires).ba
        /\ Unwrap(ires).ab_c = Unwrap(ires).a_bc

\* three overlapping proper intervals with distinct bounds whose
\* intersection is a proper interval narrower than each operand
C10_Witness ==
    /\ mode = "interval" /\ IsSome(ires)
    /\ \A i \in 1..3 : iv[i].tag = "NotEmpty" /\ iv[i].lower < iv[i].upper
    /\ iv[1] # iv[2] /\ iv[2] # iv[3] /\ iv[1] # iv[3]
    /\ Unwrap(ires).ab_c.tag = "NotEmpty"
    /\ \A i \in 1..3 : Unwrap(ires).ab_c # iv[i]

(***************************************************************************)
(* C11: for every interval value A (Empty, NotAnInterval or a value        *)
(* closed(a, b) constructs), A intersected with A is A and A intersected   *)
(* with Empty is Empty.                                                    *)
(***************************************************************************)
C11_IntersectionIdempotent ==
    (mode = "interval" /\ IsSome(ires)) =>
        /\ Unwrap(ires).aa = iv[1]
        /\ Unwrap(ires).ae = Empty

(***************************************************************************)
(* C12: for every time t and resolution R >= 1,                            *)
(* truncate(t, R) <= t < truncate(t, R) + R and |round(t, R) - t| <= R/2   *)
(* (compared as 2 * |round(t, R) - t| <= R).                               *)
(***************************************************************************)
C12_TruncateRound ==
    mode = "time" =>
        /\ IsSome(tres.truncate) =>
              /\ Unwrap(tres.truncate) <= tval[1]
              /\ tval[1] < Unwrap(tres.truncate) + tval[2]
        /\ IsSome(tres.round) =>
              /\ 2 * (Unwrap(tres.round) - tval[1]) <= tval[2]
              /\ 2 * (tval[1] - Unwrap(tres.round)) <= tval[2]

(***************************************************************************)
(* C13: Trace::push(e) returns the monotonicity error, carrying the        *)
(* position at which e would have been stored, the last stored event and   *)
(* e, exactly when e.instant is smaller than the instant of the last       *)
(* stored event; the stored sequence is then unchanged, and otherwise e is *)
(* appended at the end.                                                    *)
(***************************************************************************)
PushOutcome ==
    mode = "trace" =>
        IF trc.events # <<>>
           /\ Unwrap(lastEvent').instant < trc.events[Len(trc.events)].instant
        THEN /\ pushResult' = Some([tag |-> "Monotonocity", pos |-> Len(trc.events),
                                prev |-> trc.events[Len(trc.events)],
                                event |-> Unwrap(lastEvent')])
             /\ trc' = trc
        ELSE /\ Unwrap(pushResult').tag = "Ok"
             /\ trc'.events = Append(trc.events, Unwrap(lastEvent'))

C13_PushMonotonic == [][PushOutcome]_vars

\* a push was rejected on a trace holding events, and one was accepted at
\* the instant of the last event
C13_Witness ==
    /\ mode = "trace" /\ IsSome(pushResult)
    /\ Unwrap(pushResult).tag = "Monotonocity" /\ Unwrap(pushResult).pos >= 2
    /\ trc.events[Len(trc.events)].instant = trc.events[Len(trc.events) - 1].instant

(***************************************************************************)
(* C14: a Trace never holds two consecutive events with the same instant   *)
(* unless they are an Activation followed by a Dispatch; every other       *)
(* consecutive pair is strictly increasing in instant.                     *)
(***************************************************************************)
C14_ConsecutiveInstants ==
    mode = "trace" =>
        \A i \in 1..(Len(trc.events) - 1) :
            \/ trc.events[i].instant < trc.events[i + 1].instant
            \/ /\ trc.events[i].instant = trc.events[i + 1].instant
               /\ trc.events[i].etype = "Activation"
               /\ trc.events[i + 1].etype = "Dispatch"

(***************************************************************************)
(* C15: for any per-task event sequence with non-decreasing instants and   *)
(* any order of event kinds, update_activation_cycle never aborts; an      *)
(* event that is not a legal successor of the last event emits no Arrival  *)
(* and puts the machine back in its reset state.                           *)
(***************************************************************************)
\* the event kinds the cycle accepts after the last event kind
LegalSuccessor(ic, etype) ==
    IF ic.last_event_type = None THEN etype = "Activation"
    ELSE IF ic.last_event_type = Some("Activation") THEN etype \in {"Dispatch", "Exit"}
    ELSE IF ic.last_event_type = Some("Dispatch")
         THEN etype \in {"Preemption", "Deactivation", "Exit"}
    ELSE IF ic.last_event_type = Some("Preemption") THEN etype \in {"Dispatch", "Exit"}
    ELSE etype \in {"Activation", "Exit"}

IllegalSuccessorResets ==
    (mode = "cycle" /\ ~LegalSuccessor(icx, Unwrap(lastEvent').etype)) =>
        icArrival' = None /\ icx' = IcReset(icx)

C15_CycleNeverAborts == [](mode = "cycle" => ~panicked) /\ [][IllegalSuccessorResets]_vars

(***************************************************************************)
(* C16: as soon as the running intersection of the observed period         *)
(* intervals is empty, the periodic extractor's is_matching() is false and *)
(* extract_model() returns None; is_matching() is true exactly when at     *)
(* least two activations were seen and the feasible interval is non-empty. *)
(***************************************************************************)
C16_EmptyIntervalClearsModel ==
    (mode = "periodic" /\ ~panicked) =>
        /\ (IsSome(pex.curr_period_range) /\ HoldsNoValue(Unwrap(pex.curr_period_range)))
              => (~PeriodicIsMatching(pex) /\ PeriodicExtractModel(pex) = None)
        /\ PeriodicIsMatching(pex) <=>
              /\ Len(pex.activation_history) >= 2
              /\ IsSome(pex.curr_period_range)
              /\ ~HoldsNoValue(Unwrap(pex.curr_period_range))

\* a third activation made the running intersection empty and cleared a
\* model that the extractor held
C16_Witness ==
    /\ mode = "periodic" /\ ~panicked
    /\ Len(pex.activation_history) >= 3
    /\ pex.curr_period_range = Some(Empty)
    /\ ~PeriodicIsMatching(pex) /\ PeriodicExtractModel(pex) = None

(***************************************************************************)
(* C19: every model the periodic extractor holds has a period >= 1: the    *)
(* assertion model.period >= 1 of find_period never fails and the offset   *)
(* and jitter computation never divides by zero.                           *)
(***************************************************************************)
C19_PeriodAtLeastOne ==
    mode = "periodic" =>
        /\ ~panicked
        /\ IsSome(pex.current_model) => Unwrap(pex.current_model).period >= 1

(***************************************************************************)
(* C17: after pushing any finite event sequence into the system-level      *)
(* extractor, the SystemModel returned by extract_model has an entry for   *)
(* exactly the task ids that occurred in the pushed events, and pids()     *)
(* enumerates exactly those ids; for an empty trace the model is empty.    *)
(***************************************************************************)
\* a step of extract_model: no event is pushed and a model is returned;
\* DOMAIN solo is the set of the task ids pushed so far
ExtractedIdsArePushedIds ==
    (mode = "system" /\ steps' = steps /\ ~panicked' /\ IsSome(smodel')) =>
        /\ DOMAIN Unwrap(smodel').rbfs = DOMAIN solo
        /\ pids(Unwrap(smodel')) = DOMAIN solo

C17_ModelHasPushedIds == [][ExtractedIdsArePushedIds]_vars

(***************************************************************************)
(* C18: after any sequence of add/insert operations on a SparseMap of any  *)
(* capacity >= 1, get(delta) returns the cost of the stored breakpoint     *)
(* with the greatest delta' <= delta, and 0 if there is none.              *)
(***************************************************************************)
\* the cost of the stored breakpoint with the greatest delta' <= delta
CostOfGreatestBelow(m, delta) ==
    LET below == {p \in StoredPoints(m) : p.delta <= delta}
    IN IF below = {} THEN 0
       ELSE (CHOOSE p \in below : \A q \in below : q.delta <= p.delta).cost

C18_GetGreatestBelow ==
    mode = "sparse" =>
        \A delta \in 0..(MaxMapDelta + 1) :
            SparseGet(smap, delta) = CostOfGreatestBelow(smap, delta)

(***************************************************************************)
(* C20: after any sequence of add_arrival calls with window size W the     *)
(* curve holds at most W breakpoints besides the origin (0, 0).            *)
(***************************************************************************)
C20_BreakpointsBoundedByWindow ==
    (mode = "curve" /\ ~panicked) =>
        Cardinality(StoredPoints(crv.curve) \ {Point(0, 0)}) <= crv.window_size

(***************************************************************************)
(* C21: for a non-empty interval [t_min, t_max], pick_period_heuristic     *)
(* returns a value inside the interval: of the two multiples of the snap   *)
(* unit nearest to the median floor((t_min + t_max)/2) it returns the only *)
(* one inside the interval if exactly one is, the median if neither is,    *)
(* and if both are, the one with more trailing zeros, then the one closer  *)
(* to the median, then the smaller; for an empty interval it returns 0.    *)
(***************************************************************************)
\* the multiples of the snap unit around the median of r
MedianOf(r) == (r.t_min + r.t_max) \div 2
MultipleBelow(r) == (MedianOf(r) \div SnapNs) * SnapNs
MultipleAbove(r) == MultipleBelow(r) + SnapNs
InsideRange(r, t) == r.t_min <= t /\ t <= r.t_max

\* the preferred one of the two multiples when both are inside
Preferred(r) ==
    LET lo == MultipleBelow(r)
        hi == MultipleAbove(r)
    IN IF roundness(lo) # roundness(hi)
       THEN (IF roundness(lo) > roundness(hi) THEN lo ELSE hi)
       ELSE IF MedianOf(r) - lo # hi - MedianOf(r)
            THEN (IF MedianOf(r) - lo < hi - MedianOf(r) THEN lo ELSE hi)
            ELSE lo

C22_FixedExecTime ==
    (mode = "fixed" /\ fplan = [offset |-> 5, exec |-> 2] /\ steps = 9) =>
        /\ ~panicked
        /\ PeriodicExtractModel(ftx) =
              Some([period |-> 10 * Ms, jitter |-> 0, offset |-> 5 * Ms, wcet |-> 2 * Ms])

\* the nine events of that trace have been pushed
C22_Witness ==
    /\ mode = "fixed" /\ fplan = [offset |-> 5, exec |-> 2] /\ steps = 9
    /\ Unwrap(lastEvent) = TraceEvent("Deactivation", 0, 27 * Ms)
    /\ Len(ftx.activation_history) = 3

(***************************************************************************)
(* C24: once ArrivalSequenceSubset::add_arrival has found the              *)
(* feasible-period interval empty, the interval stays marked empty after   *)
(* every later add_arrival: each later call reports no feasible period and *)
(* no PeriodicJitterOffset model is extracted any more.                    *)
(***************************************************************************)
C24_EmptyIntervalStaysEmpty ==
    (mode = "subset" /\ ~panicked /\ subEmptied) =>
        /\ subx.t_interval.is_empty
        /\ subRes = None
        /\ match_pjitter_offset(subx, subx.jitter_bound).model = None

(***************************************************************************)
(* C25: if the arrivals satisfy a_i = O + i*P + j_i with an integer period *)
(* P >= 1, 0 <= j_i <= J_max and a_0 >= J_max, then after every            *)
(* add_arrival from the second arrival on the feasible-period interval is  *)
(* non-empty and contains P.                                               *)
(***************************************************************************)
\* the arrivals seen fit the period P and the offset O under the jitter bound
FitsPeriod(hist, P, O, j_max) ==
    \A i \in 1..Len(hist) :
        0 <= hist[i][1] - O - (i - 1) * P /\ hist[i][1] - O - (i - 1) * P <= j_max

C25_FeasibleIntervalSound ==
    (mode = "subset" /\ Len(subHist) >= 2) =>
        \A P \in 1..now, O \in 0..now :
            FitsPeriod(subHist, P, O, subx.jitter_bound) =>
                /\ ~panicked
                /\ IsSome(subRes)
                /\ ~subx.t_interval.is_empty
                /\ subx.t_interval.t_min <= P /\ P <= subx.t_interval.t_max

(***************************************************************************)
(* C26: after any sequence of add_arrival calls (including calls that      *)
(* returned "no feasible period"), min_interarrival equals the smallest    *)
(* difference between the instants of two consecutively pushed arrivals,   *)
(* so every Sporadic(mit) model extracted has mit equal to that minimum    *)
(* and wcet equal to the largest arrival cost seen.                        *)
(***************************************************************************)
\* smallest difference between consecutive arrivals, largest cost
SmallestGap(hist) ==
    LET gaps == {hist[i + 1][1] - hist[i][1] : i \in 1..(Len(hist) - 1)}
    IN CHOOSE g \in gaps : \A h \in gaps : g <= h
LargestCost(hist) ==
    CHOOSE c \in {hist[i][2] : i \in 1..Len(hist)} :
        \A i \in 1..Len(hist) : hist[i][2] <= c

C26_MinInterarrivalExact ==
    (mode = "subset" /\ ~panicked /\ Len(subHist) >= 2) =>
        /\ subx.min_interarrival = SmallestGap(subHist)
        /\ subx.wcet = LargestCost(subHist)
        /\ IsSome(match_sporadic(subx)) =>
              Unwrap(match_sporadic(subx)) =
                  sporadic(LargestCost(subHist), SmallestGap(subHist))

(***************************************************************************)
(* C27: for a job that is preempted several times between its Activation   *)
(* and its Deactivation, the preemption_time of the emitted Job is the sum *)
(* of all (Dispatch instant - preceding Preemption instant) intervals      *)
(* since the Activation, and its execution_time is the remaining time.     *)
(***************************************************************************)
C27_PreemptionTimeIsSum ==
    (mode = "job" /\ ~panicked /\ IsSome(jobOut)) =>
        /\ Unwrap(jobOut).preemption_time = preemptedSum
        /\ Unwrap(jobOut).execution_time =
              Unwrap(jobOut).completed_at - Unwrap(jobOut).arrived_at - preemptedSum

(***************************************************************************)
(* C28: JobExtractor emits at most one Job per Activation: a Deactivation  *)
(* emits a Job only if an Activation has been pushed since the previously  *)
(* emitted Job, and after an Exit no Job is emitted until a new Activation *)
(* arrives.                                                                *)
(***************************************************************************)
C28_OneJobPerActivation ==
    (mode = "job" /\ ~panicked /\ IsSome(jobOut)) =>
        /\ jobsOfActivation = 1
        /\ ~exitSeen

(***************************************************************************)
(* C29: in every state in which the periodic extractor holds a model       *)
(* (after any event, not only after a Deactivation), the model's wcet is   *)
(* the maximum execution_time over all Jobs completed so far.              *)
(***************************************************************************)
C29_ModelWcetIsMaxJobTime ==
    (mode = "periodic" /\ ~panicked /\ IsSome(PeriodicExtractModel(pex))) =>
        Unwrap(PeriodicExtractModel(pex)).wcet = maxJobTime

(***************************************************************************)
(* C30: non-matching is absorbing for the periodic extractor: once its     *)
(* feasible-period interval has become empty, the interval stays empty,    *)
(* is_matching() stays false and extract_model() returns None after every  *)
(* later event, whatever activations follow.                               *)
(***************************************************************************)
\* the feasible-period interval of the periodic extractor holds no value
PeriodRangeEmpty ==
    IsSome(pex.curr_period_range) /\ HoldsNoValue(Unwrap(pex.curr_period_range))

C30_NonMatchingAbsorbing ==
    (mode = "periodic" /\ (emptyBefore \/ PeriodRangeEmpty)) =>
        /\ PeriodRangeEmpty
        /\ ~PeriodicIsMatching(pex)
        /\ PeriodicExtractModel(pex) = None

\* an Activation was pushed into an extractor whose interval was already
\* empty, and it is still not matching
C30_Witness ==
    /\ mode = "periodic" /\ ~panicked
    /\ emptyBefore
    /\ IsSome(lastEvent) /\ Unwrap(lastEvent).etype = "Activation"
    /\ Unwrap(lastEvent).instant > pex.activation_history[Len(pex.activation_history) - 1].instant
    /\ PeriodRangeEmpty /\ ~PeriodicIsMatching(pex)

(***************************************************************************)
(* C31: after any sequence of add/insert operations on a SparseMap         *)
(* (including bucket doubling, for any capacity >= 1), iterating the map   *)
(* yields every stored breakpoint exactly once, in strictly increasing     *)
(* delta.                                                                  *)
(***************************************************************************)
C31_IterationIncreasing ==
    mode = "sparse" =>
        \A i \in 1..Len(SparseIter(smap)), j \in 1..Len(SparseIter(smap)) :
            i < j => SparseIter(smap)[i].delta < SparseIter(smap)[j].delta

(***************************************************************************)
(* C32: CompositeModelExtractor::extract_model always returns a model that *)
(* contains an RBF; it reports the periodic extractor's model whenever     *)
(* that extractor is enabled and holds one, and it consults the spectral   *)
(* extractor (and so may set periodic_ss or change the spectral            *)
(* extractor's state) only when no periodic model is reported and the      *)
(* spectral extractor is enabled.                                          *)
(***************************************************************************)
\* the periodic model extract_model has to report in the current state
ReportedPeriodic ==
    IF cx.periodic_enabled THEN cx.periodic_extractor.current_model ELSE None

\* what a call of extract_model (a step that pushes no event) leaves behind
ExtractOutcome ==
    (mode = "composite" /\ steps' = steps) =>
        /\ ~panicked' /\ IsSome(cmodel')
        /\ Unwrap(cmodel').rbf = IF cx.rbf_enabled THEN cx.rbf_extractor.rbf
                                 ELSE RbfCurveNew(0, 1)
        /\ Unwrap(cmodel').periodic = ReportedPeriodic
        /\ ~(cx.spectral_enabled /\ ReportedPeriodic = None) =>
              /\ Unwrap(cmodel').periodic_ss = None
              /\ cx'.spectral_extractor = cx.spectral_extractor
        /\ cx'.periodic_extractor = cx.periodic_extractor
        /\ cx'.rbf_extractor = cx.rbf_extractor

C32_ExtractHierarchy == [][ExtractOutcome]_vars

(***************************************************************************)
(* C33: under the Suspension heuristic, for every well-formed cycle        *)
(* Activation, Dispatch, (Preemption, Dispatch)*, Deactivation, the        *)
(* Deactivation emits exactly one Arrival whose instant is the Activation  *)
(* instant, whose cost is the sum of the running intervals (each Dispatch  *)
(* to the next Preemption or Deactivation) and whose self-suspension time  *)
(* and count are 0; the machine is then back in its initial state and no   *)
(* other event of the cycle emits an Arrival.                              *)
(***************************************************************************)
C33_SuspensionCycle ==
    (mode = "wellformed" /\ wfx.heuristic = "Suspension" /\ lastEvent # None) =>
        /\ ~panicked
        /\ wfArrival = wfExpected
        /\ Unwrap(lastEvent).etype = "Deactivation" =>
              /\ IsSome(wfArrival)
              /\ Unwrap(wfArrival).ss_time = 0 /\ Unwrap(wfArrival).ss_cnt = 0
              /\ wfx = InvocationCycleNew(wfx.pid, "Suspension", wfx.timeout)
        /\ Unwrap(lastEvent).etype \in {"Activation", "Dispatch", "Preemption"} =>
              wfArrival = None

\* a cycle preempted twice was ended by its Deactivation
C33_Witness ==
    /\ mode = "wellformed" /\ wfx.heuristic = "Suspension" /\ ~panicked
    /\ steps = 7 /\ lastEvent # None /\ Unwrap(lastEvent).etype = "Deactivation"
    /\ IsSome(wfArrival) /\ Unwrap(wfArrival).instant = 1
    /\ Unwrap(wfArrival).cost >= 3
    /\ Unwrap(wfArrival).cost + 2 <= Unwrap(lastEvent).instant - Unwrap(wfArrival).instant

Elements(s) == {s[i] : i \in 1..Len(s)}

\* the stored arrivals and the new one, with the priorities the loop of
\* add_arrival gives them, when the arrival (instant, cost) is added to s
Candidates(s, instant, cost) ==
    The({Elements(st.arrivals) \cup {st.new_arrival}
         : st \in {PeriodLoop([arrivals |-> s.arrivals, t_interval |-> s.t_interval,
                               new_arrival |-> [Arrival(instant, cost, 0, 0)
                                                   EXCEPT !.idx = s.tot_observations],
                               stop |-> FALSE],
                              1, s.jitter_bound)}})

\* every priority held is the width t_avg_max - t_avg_min, or that of an
\* arrival never compared with another one
PrioritiesAreWidths(s) ==
    \A a \in Elements(s.arrivals) :
        IF a.t_avg_min <= a.t_avg_max THEN a.buf_prio = a.t_avg_max - a.t_avg_min
        ELSE a.buf_prio = 0 /\ a.t_avg_max = 0 /\ a.t_avg_min = U64Max

EvictionOutcome ==
    (mode = "subset" /\ steps' = steps + 1 /\ ~panicked') =>
        /\ Len(subx'.arrivals) <= subx'.buf_size
        /\ PrioritiesAreWidths(subx')
        /\ (IsSome(subRes') /\ Len(subx.arrivals) >= subx.buf_size) =>
              \E out \in Candidates(subx, now', subHist'[Len(subHist')][2]) :
                 /\ Elements(subx'.arrivals)
                       = Candidates(subx, now', subHist'[Len(subHist')][2]) \ {out}
                 /\ Len(subx'.arrivals) = subx.buf_size
                 /\ \A kept \in Elements(subx'.arrivals) :
                       \/ out.buf_prio < kept.buf_prio
                       \/ out.buf_prio = kept.buf_prio /\ out.idx > kept.idx

C35_LowestPriorityLeftOut == [][EvictionOutcome]_vars

\* a full buffer took the new arrival in place of a stored one, and holds
\* arrivals of different priorities
C35_Witness ==
    /\ mode = "subset" /\ ~panicked /\ IsSome(subRes)
    /\ subx.buf_size = 2 /\ Len(subx.arrivals) = 2 /\ subx.tot_observations >= 3
    /\ \E a \in Elements(subx.arrivals) : a.idx = subx.tot_observations - 1
    /\ \E a \in Elements(subx.arrivals), b \in Elements(subx.arrivals) :
          a.buf_prio < b.buf_prio

(***************************************************************************)
(* C36: for every minimum inter-arrival gap min_gap > 0 observed by the    *)
(* spectral extractor, the sampling resolution used is                     *)
(* R = 10^(floor(log10(min_gap in ns)) - 1) clamped into [10 us, 1 s],     *)
(* computed without integer underflow, and extraction proceeds without     *)
(* aborting whenever min_gap >= R.                                         *)
(***************************************************************************)
\* 10^(floor(log10(min_gap)) - 1) clamped into [10 us, 1 s]
ClampedResolution(min_gap) ==
    LET raw == IF FloorLog10(min_gap) = 0 THEN 0 ELSE Pow10(FloorLog10(min_gap) - 1)
    IN IF raw < TenMicros THEN TenMicros
       ELSE IF raw > OneSecond THEN OneSecond ELSE raw

C36_ResolutionClamped ==
    (mode = "resolution" /\ rgap > 0 /\ IsSome(rres)) =>
        /\ Unwrap(rres).resolution = ClampedResolution(rgap)
        /\ rgap >= ClampedResolution(rgap) => ~Unwrap(rres).panic

(***************************************************************************)
(* C37: given a period P, detect_suspensions puts two jobs of the history  *)
(* in the same invocation group exactly when their arrivals fall in the    *)
(* same window [first_arrival + k*P, first_arrival + (k+1)*P), also when   *)
(* some windows hold no job; the first job of a group is its first         *)
(* execution segment, each later job adds one execution segment and one    *)
(* suspension segment (arrived_at - previous completed_at), and the        *)
(* function does not abort.                                                *)
(***************************************************************************)
\* the window the k-th job's arrival falls in
WindowOf(h, k, period) == (h[k].arrived_at - h[1].arrived_at) \div period

\* the number of groups detect_suspensions had opened when the k-th job was
\* done: next_arrival_ts advances by one period per group
GroupOf(h, trail, k, period) ==
    (trail[k].next_arrival_ts - h[1].arrived_at) \div period

\* the jobs up to the k-th that detect_suspensions put in the k-th's group
GroupUpTo(h, trail, k, period) ==
    {i \in 1..k : GroupOf(h, trail, i, period) = GroupOf(h, trail, k, period)}

\* the segments of a group whose jobs are g, the first of them being lo
RECURSIVE ExecutionSegments(_, _, _, _)
ExecutionSegments(h, g, i, k) ==
    IF i > k THEN <<>>
    ELSE (IF i \in g THEN <<h[i].execution_time>> ELSE <<>>)
         \o ExecutionSegments(h, g, i + 1, k)

RECURSIVE SuspensionSegments(_, _, _, _, _)
SuspensionSegments(h, g, lo, i, k) ==
    IF i > k THEN <<>>
    ELSE (IF i \in g /\ i # lo THEN <<h[i].arrived_at - h[i - 1].completed_at>> ELSE <<>>)
         \o SuspensionSegments(h, g, lo, i + 1, k)

SegmentsFollowJobs(h, trail, period) ==
    \A k \in 1..Len(h) :
        \E g \in {GroupUpTo(h, trail, k, period)} :
            \E lo \in {CHOOSE i \in g : \A j \in g : i <= j} :
                /\ trail[k].curr.executions = ExecutionSegments(h, g, 1, k)
                /\ trail[k].curr.suspensions = SuspensionSegments(h, g, lo, 1, k)

C37_GroupsAreWindows ==
    (mode = "suspensions" /\ IsSome(ssRes)) =>
        \E h \in {ssx.job_history}, r \in {Unwrap(ssRes)} :
            /\ ~r.panic
            /\ Len(r.trail) = Len(h)
            /\ \A i, j \in 1..Len(h) :
                  (GroupOf(h, r.trail, i, ssPeriod) = GroupOf(h, r.trail, j, ssPeriod))
                      <=> (WindowOf(h, i, ssPeriod) = WindowOf(h, j, ssPeriod))
            /\ SegmentsFollowJobs(h, r.trail, ssPeriod)

(***************************************************************************)
(* C38: the model returned by detect_suspensions has total_wcet equal to   *)
(* the maximum, over all invocation groups of the job history including    *)
(* the last one, of the group's summed execution time, and total_wcss      *)
(* equal to the maximum over all groups of the summed suspension time;     *)
(* segmented is true exactly when all groups have the same number of       *)
(* execution segments.                                                     *)
(***************************************************************************)
RECURSIVE SegmentSum(_)
SegmentSum(s) == IF s = <<>> THEN 0 ELSE Head(s) + SegmentSum(Tail(s))

\* the last job of every group detect_suspensions formed
GroupEnds(h, trail, period) ==
    {k \in 1..Len(h) : \A i \in 1..Len(h) :
        GroupOf(h, trail, i, period) = GroupOf(h, trail, k, period) => i <= k}

\* the segments of the whole group that ends with job k
GroupExecutions(h, trail, k, period) ==
    ExecutionSegments(h, GroupUpTo(h, trail, k, period), 1, k)

GroupSuspensionSum(h, trail, k, period) ==
    LET g == GroupUpTo(h, trail, k, period)
    IN SegmentSum(SuspensionSegments(h, g, CHOOSE i \in g : \A j \in g : i <= j, 1, k))

LargestOf(S) == CHOOSE v \in S : \A w \in S : w <= v

C38_TotalsAreMaxima ==
    (mode = "suspensions" /\ IsSome(ssRes) /\ ~Unwrap(ssRes).panic) =>
        \E h \in {ssx.job_history}, r \in {Unwrap(ssRes)} :
            \E ends \in {GroupEnds(h, r.trail, ssPeriod)} :
                /\ r.model.total_wcet =
                      LargestOf({SegmentSum(GroupExecutions(h, r.trail, k, ssPeriod))
                                 : k \in ends})
                /\ r.model.total_wcss =
                      LargestOf({GroupSuspensionSum(h, r.trail, k, ssPeriod) : k \in ends})
                /\ r.model.segmented <=>
                      \A k, l \in ends :
                          Len(GroupExecutions(h, r.trail, k, ssPeriod))
                              = Len(GroupExecutions(h, r.trail, l, ssPeriod))

(***************************************************************************)
(* C39: for n <= W arrivals at instants 0, P, 2P, ..., (n-1)P (P >= 1),    *)
(* all with the same cost c > 0, the breakpoints of the resulting RBF      *)
(* curve are exactly (0, 0) and (k*P + 1, (k+1)*c) for k = 0..n-1, in that *)
(* order.                                                                  *)
(***************************************************************************)
\* the arrivals fed so far are n >= 1 arrivals of cost c every p, from 0 on
PeriodicArrivals(p, c) ==
    /\ arrivals # <<>>
    /\ \A k \in 1..Len(arrivals) : arrivals[k] = <<(k - 1) * p, c>>

PeriodicBreakpoints(n, p, c) ==
    <<Point(0, 0)>> \o [k \in 1..n |-> Point((k - 1) * p + 1, k * c)]

C39_PeriodicBreakpoints ==
    mode = "curve" =>
        \A p \in 1..MaxStep, c \in 1..MaxCost :
            (PeriodicArrivals(p, c) /\ Len(arrivals) <= crv.window_size) =>
                /\ ~panicked
                /\ SparseIter(crv.curve) = PeriodicBreakpoints(Len(arrivals), p, c)

(***************************************************************************)
(* C40: in incremental mode (update_interval or update_arrival set), for   *)
(* every trace the model held after the last event has been processed,     *)
(* which is the one finally printed or written, equals the model that      *)
(* one-shot extraction produces for the same trace.                        *)
(***************************************************************************)
C40_IncrementalEqualsOneShot ==
    (mode = "incremental" /\ IsSome(outcome) /\ ~panicked) =>
        Unwrap(outcome).incremental = Unwrap(outcome).one_shot

====
